---- MODULE Spec2Model ----
(***************************************************************************)
(* zoom-rec-dl: the share-link resolution pipeline of the command-line     *)
(* downloader (the fetch-based script: startup check, the loop over the    *)
(* recording share URLs, the clip loop, the media loop and the log         *)
(* writing).                                                               *)
(*                                                                         *)
(* Strings are modelled as sequences of tokens (a token is a TLA+ string   *)
(* standing for one or more characters), URLs as records of their parsed   *)
(* components, so that regular expressions, joins and the URL API are      *)
(* computed instead of assumed.                                            *)
(***************************************************************************)
EXTENDS Integers, Sequences, FiniteSets, TLC

VARIABLES
    arg,               \* argument of a function of the script called alone
    ret,               \* what the function called alone has returned
    urlText,           \* the lines of urls.txt, read into const urlText
    dirs,              \* the directories made in the working directory
    recShareUrls,      \* the Set of matched share URLs, in insertion order
    pc,                \* position of the script (the await it is suspended at)
    li,                \* index of the share URL the for-of loop is at
    cookie,            \* headers.get('cookie'): a token sequence
    inflight,          \* the fetch() calls awaiting their response
    shareInfo,         \* result of /share-info of the current share URL
    playInfoUrl,       \* URL object of the /play/info requests
    initPlayInfo,      \* result of the first /play/info response
    playInfo,          \* PlayInfo of the clip being processed
    nextClipStartTime, \* let nextClipStartTime
    i,                 \* clip loop counter
    mediaUrls,         \* the media URLs of the clip not yet iterated
    mediaUrl,          \* the media URL being downloaded
    temporaryFilename, \* `${Date.now()}.part` of the current media URL
    filename,          \* the final (safe) file name of the current download
    readable,          \* state of the Readable piped to the write stream
    writers,           \* open write streams: path, inode, buffered chunks
    fs,                \* file system: path -> inode number
    inodes,            \* number of inodes allocated
    clock,             \* last reading of Date.now()
    failedAttempts,    \* const failedAttempts: Array<string>
    console,           \* lines logged (the ones the pipeline's outcome shows in)
    logFiles,          \* the log files written: name and content
    lastError,         \* the message of e while the catch block is run
    listed,            \* number of media URLs the server has listed so far
    attempted,         \* indices of the share URLs a /share-info was issued for
    faults,            \* the failures the run met, in order: link and media URL
    linkSetCookie,     \* cookies the /share-info response of this URL set
    serverCursor,      \* nextClipStartTime of the latest /play/info response
    clipsSeen,         \* /play/info results the clip loop has taken up
    owed,              \* media URLs of the latest result not yet requested
    sent               \* Resolver requests issued for the current share URL

vars == <<arg, ret, urlText, dirs, recShareUrls, pc, li, cookie, inflight, shareInfo,
          playInfoUrl,
          initPlayInfo, playInfo, nextClipStartTime, i, mediaUrls, mediaUrl,
          temporaryFilename, filename, readable, writers, fs, inodes, clock,
          failedAttempts, console, logFiles, lastError, listed,
          attempted, faults, linkSetCookie, serverCursor,
          clipsSeen, owed, sent>>

----------------------------------------------------------------------------
(* Bounds of the model *)

MaxLinks == 2     \* share URLs in urls.txt
MaxClips == 3     \* largest totalClips a /play/info response reports
MaxMedia == 2     \* media URLs the server lists over one run
MaxChunks == 1    \* chunks of one media body
MaxRepeats == 1   \* times the share URLs of urls.txt are written again
MaxFields == 3    \* fields of a /play/info result the extraction is called on
MaxName == 4      \* characters of a name convertToSafeName is called on
MaxCookies == 2   \* cookies of a response the map-based scan is called on

----------------------------------------------------------------------------
(* Generic helpers on sequences *)

RECURSIVE Join(_, _)
\* Array.prototype.join on an array of token sequences.
Join(arr, sep) ==
    IF Len(arr) = 0 THEN <<>>
    ELSE IF Len(arr) = 1 THEN arr[1]
    ELSE arr[1] \o sep \o Join(Tail(arr), sep)

RECURSIVE Dedup(_)
\* new Set(array): first occurrences, in order.
Dedup(arr) ==
    IF Len(arr) = 0 THEN <<>>
    ELSE LET rest == Dedup(SubSeq(arr, 1, Len(arr) - 1))
             last == arr[Len(arr)]
         IN IF \E k \in 1..Len(rest) : rest[k] = last THEN rest
            ELSE Append(rest, last)

Range(s) == {s[k] : k \in 1..Len(s)}

Last(s) == s[Len(s)]

----------------------------------------------------------------------------
(* URLs.  A URL string is modelled by its parsed components: origin,       *)
(* pathname (a sequence of segments) and search (a sequence of             *)
(* <<key, value>> pairs, <<>> when there is no query string).              *)

Url(origin, pathname, search) ==
    [origin |-> origin, pathname |-> pathname, search |-> search]

NoUrl == Url("", <<>>, <<>>)

\* Faulty variant of URLSearchParams.set: the pair replaces the whole query.
SearchParamsReplaced(search, key, value) == <<<<key, value>>>>

\* URLSearchParams.set(key, value): replaces the value of the first pair
\* named key and drops the other pairs of that name, or appends a new pair.
SearchParamsSet(search, key, value) ==
    IF \E k \in 1..Len(search) : search[k][1] = key
    THEN LET first == CHOOSE k \in 1..Len(search) :
                          /\ search[k][1] = key
                          /\ \A m \in 1..(k - 1) : search[m][1] # key
             keep == SelectSeq(search, LAMBDA kv : kv[1] # key)
         IN SubSeq(keep, 1, first - 1) \o <<<<key, value>>>>
                \o SubSeq(keep, first, Len(keep))
    ELSE Append(search, <<key, value>>)

SearchParamsGet(search, key) ==
    IF \E k \in 1..Len(search) : search[k][1] = key
    THEN (SelectSeq(search, LAMBDA kv : kv[1] = key))[1][2]
    ELSE ""

\* Faulty variant of trimUrlSearchParams: the URL is returned as it came.
TrimUrlSearchParamsKeepsQuery(urlString) == urlString

\* utilities: trimUrlSearchParams.  new URL(urlString); url.search = '';
\* url.toString().  Every URL the script hands it has parsed before, so the
\* catch branch (which returns '') is not taken.
TrimUrlSearchParams(urlString) ==
    IF urlString.origin = "" THEN NoUrl
    ELSE [urlString EXCEPT !.search = <<>>]

----------------------------------------------------------------------------
(* The inputs of a run and the values the server may answer with *)

RecordIds == <<"rec-1", "rec-2", "rec-3", "rec-4">>
Passwords == <<"pw-1", "pw-2", "pw-3", "pw-4">>
FileIds == <<"fid-1", "fid-2", "fid-3", "fid-4">>
SessionIds == <<"ssid-1", "ssid-2", "ssid-3", "ssid-4">>
Credentials == <<"cred-1", "cred-2", "cred-3", "cred-4">>
Trackers == <<"trk-1", "trk-2", "trk-3", "trk-4">>
TimeStamps == <<"1700000000000", "1700000000001", "1700000000002",
                "1700000000003", "1700000000004", "1700000000005">>

\* The k-th line of urls.txt that matches the share URL pattern; odd lines
\* carry a ?pwd= query string.
ShareUrl(k) ==
    Url("https://zoom.us", <<"rec", "share", RecordIds[k]>>,
        IF k % 2 = 1 THEN <<<<"pwd", Passwords[k]>>>> ELSE <<>>)

\* recShareUrl.replace(/\/rec\/(share|play)\//,
\*                     '/nws/recording/1.0/play/share-info/')
ShareInfoUrl(recShareUrl) ==
    IF Len(recShareUrl.pathname) >= 2
       /\ recShareUrl.pathname[1] = "rec"
       /\ recShareUrl.pathname[2] \in {"share", "play"}
    THEN [recShareUrl EXCEPT !.pathname =
              <<"nws", "recording", "1.0", "play", "share-info">>
                  \o SubSeq(recShareUrl.pathname, 3, Len(recShareUrl.pathname))]
    ELSE recShareUrl

----------------------------------------------------------------------------
(* Cookies.  The Set-Cookie header value and the cookie request header are *)
(* token sequences.  "_zm_ssid" and "cred" are single tokens; a cookie     *)
(* named xcred is the two tokens "x", "cred", since the regular expression *)
(* looks for the characters c-r-e-d wherever they stand.                   *)

Cookie(name, value, attributes) ==
    [name |-> name, value |-> value, attributes |-> attributes]

CookieAttributes == <<";", " ", "Path", "=", "/">>

\* The session cookies of the k-th share URL.
SessionCookies(k) ==
    << Cookie(<<"_zm_ssid">>, <<SessionIds[k]>>, CookieAttributes),
       Cookie(<<"cred">>, <<Credentials[k]>>, CookieAttributes) >>

\* The cookie lists a /share-info response may set for the k-th share URL:
\* none, the session cookies, or a cookie named xcred alone.
SetCookieCases(k) ==
    { <<>>,
      SessionCookies(k),
      << Cookie(<<"x", "cred">>, <<Trackers[k]>>, CookieAttributes) >> }

\* A /share-info response that sets the cookie cred twice, with an earlier
\* and a later value (answered to a run of one share URL, where no other
\* URL's requests are interleaved with its own).
RepeatedCookie(k) ==
    << Cookie(<<"cred">>, <<Trackers[k]>>, CookieAttributes),
       Cookie(<<"cred">>, <<Credentials[k]>>, CookieAttributes) >>

\* response.headers.get('set-cookie'): the Set-Cookie header lines joined
\* with ", " (<<>> stands for null: no such header).
SetCookieHeader(cookies) ==
    Join([k \in 1..Len(cookies) |->
              cookies[k].name \o <<"=">> \o cookies[k].value
                  \o cookies[k].attributes],
         <<",", " ">>)

\* End of the longest run of tokens other than ";" that starts at from.
RECURSIVE ValueEnd(_, _)
ValueEnd(str, from) ==
    IF from < Len(str) /\ str[from + 1] # ";" THEN ValueEnd(str, from + 1)
    ELSE from

\* str.match(/(_zm_ssid|cred)=([^;]+)/g) from position from on: the
\* leftmost matches, none overlapping, each as the matched substring.
RECURSIVE MatchCookies(_, _)
MatchCookies(str, from) ==
    IF from > Len(str) THEN <<>>
    ELSE IF /\ str[from] \in {"_zm_ssid", "cred"}
            /\ from + 2 <= Len(str)
            /\ str[from + 1] = "="
            /\ str[from + 2] # ";"
         THEN LET to == ValueEnd(str, from + 2)
              IN <<SubSeq(str, from, to)>> \o MatchCookies(str, to + 1)
         ELSE MatchCookies(str, from + 1)

\* The value of the cookie request header after the /share-info response:
\* setCookieHeaders.join('; ') when the match is not null, else unchanged.
CookieAfterShareInfo(old, cookies) ==
    LET setCookieHeaders == MatchCookies(SetCookieHeader(cookies), 1)
    IN IF Len(setCookieHeaders) > 0
       THEN Join(setCookieHeaders, <<";", " ">>)
       ELSE old

----------------------------------------------------------------------------
(* PlayInfo and the media URLs *)

\* A field value of a /play/info result: its typeof and, for a string that
\* is a URL, the URL.
FieldValue(type, url) == [type |-> type, url |-> url]

MediaUrl(name, ext) ==
    Url("https://ssrweb.zoom.us", <<"replay", name \o <<ext>>>>,
        <<<<"token", "signed">>>>)

VideoUrl == FieldValue("string", MediaUrl(<<"GMT-video">>, ".mp4"))
AudioUrl == FieldValue("string", MediaUrl(<<"GMT-audio">>, ".m4a"))

\* The values of the fields (other than meet, totalClips, currentClip and
\* nextClipStartTime) of a /play/info result, in Object.values order.
FieldCases == { <<>>, <<VideoUrl>>, <<VideoUrl, AudioUrl>> }

Topics == {"Weekly Sync"}

\* The topics a /play/info result of a later clip may report: that of the
\* first result, or another one.
LaterTopics == Topics \cup {"Weekly Sync (edited)"}

\* nextClipStartTime of the result for clip number clip of total clips:
\* the second at which the next clip starts, -1 after the last clip.
ClipStartStrings == <<"5400", "10800", "16200", "21600", "27000">>

NextClipStartTime(clip, total) ==
    IF clip < total THEN 5400 * clip ELSE -1

PlayInfo(topic, totalClips, next, fields) ==
    [meet |-> topic, totalClips |-> totalClips,
     nextClipStartTime |-> next, fields |-> fields]

NoPlayInfo == PlayInfo("", 0, 0, <<>>)

\* The origins of the media URLs of the model, spelled: the scheme, the
\* labels of the host and the characters between them.
OriginSpelling(origin) ==
    IF origin = "https://ssrweb.zoom.us"
    THEN <<"https://", "ssrweb", ".", "zoom", ".", "us">>
    ELSE IF origin = "https://ssrweb-zoom.us"
    THEN <<"https://", "ssrweb", "-", "zoom", ".", "us">>
    ELSE IF origin = "https://zoom.us"
    THEN <<"https://", "zoom", ".", "us">>
    ELSE <<origin>>

\* The single characters the names of the model are spelled with; a dot
\* of a regular expression that is not escaped matches each of them.
AnyChar == {".", "-"}

\* (.mp4|.m4a): any character, then mp4 or m4a.
AnyCharThenMedia == {".mp4", ".m4a", "-mp4", "-m4a"}

\* /^https:\/\/ssrweb.zoom.us\/[^\s]+(.mp4|.m4a)[^\s]*$/.test(v) for a
\* string v that is a URL of the model, its last path segment a sequence of
\* tokens: the host is ssrweb, zoom and us with any character between them,
\* and somewhere after the first character of the path comes any character
\* followed by mp4 or m4a; what follows is not looked at, spaces apart.
IsMediaUrl(url) ==
    LET host == OriginSpelling(url.origin)
    IN /\ Len(host) = 6
       /\ host[1] = "https://"
       /\ host[2] = "ssrweb"
       /\ host[3] \in AnyChar
       /\ host[4] = "zoom"
       /\ host[5] \in AnyChar
       /\ host[6] = "us"
       /\ Len(url.pathname) > 0
       /\ \A k \in 1..Len(Last(url.pathname)) :
              Last(url.pathname)[k] # " "
       /\ \E k \in 1..Len(Last(url.pathname)) :
              /\ Last(url.pathname)[k] \in AnyCharThenMedia
              /\ k > 1 \/ Len(url.pathname) > 1

\* new Set(Object.values(playInfo).filter(v => typeof v === 'string' &&
\* regex.test(v))), in insertion order.
ExtractMediaUrls(info) ==
    LET strings == SelectSeq(info.fields,
                       LAMBDA v : v.type = "string" /\ IsMediaUrl(v.url))
    IN Dedup([k \in 1..Len(strings) |-> strings[k].url])

\* The values of the fields of a /play/info result the extraction is
\* called with alone: the two media URLs, a number, an object that holds a
\* media URL, and strings that are no media URL of the vendor: a URL of
\* another host, of a host that differs from the media host in one
\* character, and URLs of the media host whose file name has no .mp4 or
\* .m4a extension.
FieldValues ==
    { VideoUrl, AudioUrl,
      FieldValue("number", NoUrl),
      FieldValue("object", VideoUrl.url),
      FieldValue("string",
          Url("https://zoom.us", <<"rec", <<"GMT-video", ".mp4">>>>, <<>>)),
      FieldValue("string",
          Url("https://ssrweb-zoom.us", <<"replay", <<"GMT-video", ".mp4">>>>,
              <<>>)),
      FieldValue("string",
          Url("https://ssrweb.zoom.us", <<"replay", <<"GMT-video", "-mp4">>>>,
              <<>>)),
      FieldValue("string",
          Url("https://ssrweb.zoom.us",
              <<"replay", <<"GMT-chat", ".mp4", ".vtt">>>>, <<>>)),
      FieldValue("string",
          Url("https://ssrweb.zoom.us", <<"replay", <<"GMT-chat", ".txt">>>>,
              <<>>)) }

RECURSIVE SeqsUpTo(_, _)
\* The sequences of at most n elements of S.
SeqsUpTo(S, n) ==
    IF n = 0 THEN {<<>>}
    ELSE LET shorter == SeqsUpTo(S, n - 1)
         IN shorter \cup {Append(q, x) : q \in shorter, x \in S}

\* Number.prototype.toString of the cursor, as the startTime parameter.
NumberToString(n) ==
    IF n = -1 THEN "-1"
    ELSE IF n % 5400 = 0 /\ (n \div 5400) \in 1..Len(ClipStartStrings)
         THEN ClipStartStrings[n \div 5400]
    ELSE "NaN"

\* Date.now() rendered in a template literal.
TimeToString(t) == TimeStamps[t + 1]

\* `${Date.now()}.part`
TemporaryFilename(t) == <<TimeToString(t), ".part">>

\* convertToSafeName(`${playInfo.meet.topic} ${mediaUrl.match(
\* /[^/]+(?:\.mp4|\.m4a)/)?.[0] || Date.now()}`): the topics and the file
\* names of the model hold no character the function replaces.
SafeFilename(topic, url, t) ==
    LET base == Last(url.pathname)
    IN IF Last(base) \in {".mp4", ".m4a"}
       THEN <<topic, " ">> \o base
       ELSE <<topic, " ", TimeToString(t)>>

----------------------------------------------------------------------------
(* Text written to the logs: a sequence of pieces, each a literal or a URL *)

Text(t) == [text |-> t, url |-> NoUrl]
UrlText(u) == [text |-> "", url |-> u]

\* A string is truthy when it is not empty.
Truthy(str) == Len(str) > 0

Line(link, line) == [link |-> link, line |-> line]

----------------------------------------------------------------------------
(* urls.txt.  The text is modelled by its lines; a line is a piece: a URL  *)
(* alone (text = ""), or other text.                                       *)

urlTextFilename == <<"urls.txt">>

\* samplePathname and sampleUrls of sample.js: the path the sample URLs
\* share, and the lines written to a new urls.txt.
samplePathname == "sample-recording"

sampleUrls ==
    << UrlText(Url("https://zoom.us", <<"rec", "share", samplePathname>>,
                   <<<<"pwd", "sample-password">>>>)) >>

\* Faulty variant of the search: nothing is found.
IncludesNothing(text, needle) == FALSE

\* urlText.includes(samplePathname)
Includes(text, needle) ==
    \E k \in 1..Len(text) :
        \E n \in 1..Len(text[k].url.pathname) :
            text[k].url.pathname[n] = needle

\* https:\/\/(?:[a-z][a-z-]{1,}[a-z]\.|us[0-9]{2}web\.)?(?:zoom.us|zoomgov.com)
\* on the origins of the lines of the model; the dot of zoom.us is not
\* escaped and stands for any character.
OriginMatches(origin) ==
    origin \in {"https://zoom.us", "https://zoomgov.com",
                "https://us02web.zoom.us", "https://example-org.zoom.us",
                "https://zoom-us"}

\* One line against /^https:\/\/...\/rec\/(?:share|play)\/[^\s]+
\* (?:\?pwd=[^?\s]+)?$/gm: nothing before or after the URL, an origin of
\* the vendor, /rec/share/ or /rec/play/ and at least one more character.
MatchesShareUrl(line) ==
    /\ line.text = ""
    /\ OriginMatches(line.url.origin)
    /\ Len(line.url.pathname) >= 3
    /\ line.url.pathname[1] = "rec"
    /\ line.url.pathname[2] \in {"share", "play"}
    /\ line.url.pathname[3] # ""

CommentLine == Text("# recordings of the week")
HttpLine == UrlText(Url("http://zoom.us", <<"rec", "share", "rec-1">>, <<>>))
OtherHostLine ==
    UrlText(Url("https://zoom.com", <<"rec", "share", "rec-1">>, <<>>))
EditLine ==
    UrlText(Url("https://zoom.us", <<"rec", "edit", "rec-1">>, <<>>))
IndentedLine == [text |-> " ", url |-> ShareUrl(1)]

\* urls.txt with one share URL on each line.
CleanText(n) == [k \in 1..n |-> UrlText(ShareUrl(k))]

RECURSIVE Repeated(_, _)
Repeated(text, times) ==
    IF times = 0 THEN <<>> ELSE text \o Repeated(text, times - 1)

\* urls.txt with n share URLs among lines that do not match, the share
\* URLs written again after their first occurrence, the last one first.
NoisyText(n) ==
    <<CommentLine>>
        \o CleanText(n)
        \o Repeated(<<HttpLine, UrlText(ShareUrl(n)), IndentedLine,
                      UrlText(ShareUrl(1))>>, MaxRepeats)

\* urls.txt without a line that matches, and with a sample URL.
RejectedTexts ==
    { <<>>, <<CommentLine>>, <<HttpLine, OtherHostLine>>,
      <<EditLine, IndentedLine>>,
      sampleUrls, CleanText(1) \o sampleUrls }

\* The texts of urls.txt: one share URL alone, two and more share URLs
\* among other lines and repeated, and the texts the startup check rejects.
UrlTexts ==
    {IF n = 1 THEN CleanText(n) ELSE NoisyText(n) : n \in 1..MaxLinks}
        \cup RejectedTexts

----------------------------------------------------------------------------
(* Responses of the server *)

ShareInfoBody(kind, hasValidToken, redirectUrl, pwd) ==
    [kind |-> kind, hasValidToken |-> hasValidToken,
     redirectUrl |-> redirectUrl, pwd |-> pwd]

NoShareInfo == ShareInfoBody("null", "absent", <<>>, "")

\* The bodies of a successful /share-info response for the k-th share URL:
\* no JSON, result null, hasValidToken false, no redirectUrl, and the
\* result of a playable recording (the password of the share URL echoed).
ShareInfoBodies(k) ==
    LET redirect == <<"rec", "play", RecordIds[k]>>
        pwd == SearchParamsGet(ShareUrl(k).search, "pwd")
    IN { ShareInfoBody("not-json", "absent", <<>>, ""),
         NoShareInfo,
         ShareInfoBody("result", "false", redirect, ""),
         ShareInfoBody("result", "absent", <<>>, pwd),
         ShareInfoBody("result", IF pwd = "" THEN "absent" ELSE "true",
                       redirect, pwd) }

ShareInfoResponses(k) ==
    LET pwd == SearchParamsGet(ShareUrl(k).search, "pwd")
    IN {[ok |-> FALSE, cookies |-> <<>>, body |-> NoShareInfo]}
       \cup {[ok |-> TRUE, cookies |-> c, body |-> b] :
                 c \in SetCookieCases(k), b \in ShareInfoBodies(k)}
       \cup {[ok |-> TRUE, cookies |-> RepeatedCookie(k),
              body |-> ShareInfoBody("result",
                                     IF pwd = "" THEN "absent" ELSE "true",
                                     <<"rec", "play", RecordIds[k]>>, pwd)] :
                 only \in {Len(recShareUrls)} \cap {k} \cap {1}}

\* /rec/play page: non-success, no fileId in the page, or the fileId.
RecPlayResponses(k) ==
    { [ok |-> FALSE, fileId |-> ""],
      [ok |-> TRUE, fileId |-> ""],
      [ok |-> TRUE, fileId |-> FileIds[k]] }

\* /play/info for clip number clip: non-success, a body without result,
\* for the first clip a result without totalClips and the other fields of
\* a PlayInfo (totalClips 0 stands for undefined), or a PlayInfo.  The
\* server lists at most MaxMedia media URLs in a run, and none for a share
\* URL whose session cookies it has not set.  The topic of a later clip is
\* read only to name the media files of the clip, so it differs from the
\* first one only in the result of the last clip of the last share URL,
\* when it lists media URLs, the last ones of the run.
PlayInfoResponses(clip, total, budget, topics) ==
    { [ok |-> FALSE, hasResult |-> FALSE, result |-> NoPlayInfo],
      [ok |-> TRUE, hasResult |-> FALSE, result |-> NoPlayInfo] }
    \cup {[ok |-> TRUE, hasResult |-> TRUE, result |-> NoPlayInfo] :
              c \in {clip} \cap {1}}
    \cup UNION {
         {[ok |-> TRUE, hasResult |-> TRUE,
           result |-> PlayInfo(topic, n,
                               NextClipStartTime(clip,
                                   IF clip = 1 THEN n ELSE total),
                               fields)] :
              topic \in IF /\ clip > 1 /\ clip = total
                           /\ fields # <<>> /\ Len(fields) = budget
                        THEN topics ELSE Topics,
              n \in IF clip = 1 THEN {1, MaxClips} ELSE {1, total}} :
         fields \in {f \in FieldCases : Len(f) <= budget}}

MediaResponses == {"not-ok", "no-body", "body"}

\* Faulty variant of the wait for the stream: the promise is not awaited,
\* the media loop goes on while the body is read.
StreamNotAwaited == "media"

\* await new Promise((resolve, reject) => ...): the script is suspended
\* until the readable has emitted 'end' or 'error'.
AwaitStream == "streaming"

\* new Headers({'Referer': ..., 'User-Agent': ...}): the two headers the
\* script sets once, before the loop.
Referer == "https://zoom.us/"

UserAgent == "Mozilla/5.0 (Macintosh; Intel Mac OS X 10_15_7) AppleWebKit/537.36 (KHTML, like Gecko) Chrome/110.0.0.0 Safari/537.36"

\* Faulty variant of fetch(url, { headers }): the request is made without
\* the headers object.
RequestWithoutHeaders(kind, url, cookieHeader, link, clip) ==
    [kind |-> kind, url |-> url, cookie |-> <<>>,
     referer |-> "", userAgent |-> "",
     link |-> link, clip |-> clip]

\* fetch(url, { headers }): the request carries the headers object as it is
\* when fetch is called.
Request(kind, url, cookieHeader, link, clip) ==
    [kind |-> kind, url |-> url, cookie |-> cookieHeader,
     referer |-> Referer, userAgent |-> UserAgent,
     link |-> link, clip |-> clip]

\* The readings Date.now() may give: the clock does not run backwards.  A
\* reading equal to the last one differs from a later one only through the
\* files named after it, so it is drawn only when there is such a file.
ClockReadings ==
    {clock + 1}
        \cup {t \in {clock} :
                  \E p \in DOMAIN fs : p.name = TemporaryFilename(t)}

----------------------------------------------------------------------------
(* The file system *)

Path(dir, name) == [dir |-> dir, name |-> name]

downloadDirectory == "download"

ExistsSync(f, path) == path \in DOMAIN f

\* renameSync(from, to) on the directory entries f: to is replaced.
RenameSync(f, from, to) ==
    [p \in (DOMAIN f \ {from}) \cup {to} |->
         IF p = to THEN f[from] ELSE f[p]]

UnlinkSync(f, path) == [p \in DOMAIN f \ {path} |-> f[p]]

\* fs.open(path, 'w') of a write stream: the file is created, or truncated
\* when the path exists.  The result is <<fs, inodes, inode>>.
OpenForWriting(path) ==
    IF ExistsSync(fs, path)
    THEN <<fs, inodes, fs[path]>>
    ELSE <<[p \in DOMAIN fs \cup {path} |->
                IF p = path THEN inodes + 1 ELSE fs[p]],
           inodes + 1, inodes + 1>>

\* createWriteStream(path): the stream opens its file asynchronously; ino
\* is 0 until the file is open, and what is written before is buffered.
Writer(path, ino, buffered, ended) ==
    [path |-> path, ino |-> ino, buffered |-> buffered, ended |-> ended]

\* Readable.fromWeb(response.body): flowing once piped, and the number of
\* chunks it has handed to the write stream.
Readable(flowing, chunks) == [flowing |-> flowing, chunks |-> chunks]

NoReadable == Readable(FALSE, 0)

\* A write stream closes once its file is open, it was ended and its buffer
\* is written.
Closed(ws) == ws.ino # 0 /\ ws.ended /\ ws.buffered = 0

OpenWriters(streams) == SelectSeq(streams, LAMBDA ws : ~Closed(ws))

\* writeStream.end() on the stream opened last.
EndWriter(streams) ==
    OpenWriters([streams EXCEPT ![Len(streams)].ended = TRUE])

Fault(link, url) == [link |-> link, url |-> url]

\* The file system has completed the opens and the writes handed to it.  A
\* response of the network is taken to arrive after the opens and writes
\* asked for before it.
Quiet ==
    \A w \in 1..Len(writers) :
        writers[w].ino # 0 /\ writers[w].buffered = 0

----------------------------------------------------------------------------
(* The script *)

inputs == <<arg, ret, urlText, dirs>>
linkLocals == <<shareInfo, playInfoUrl, initPlayInfo, playInfo,
                nextClipStartTime, i, mediaUrls>>
downloadLocals == <<mediaUrl, temporaryFilename, filename, readable>>
disk == <<writers, fs, inodes>>
ghosts == <<attempted, faults, linkSetCookie, serverCursor,
            clipsSeen, owed, listed, sent>>

\* The script has not run a statement yet.
NotStarted ==
    /\ dirs = {}
    /\ recShareUrls = <<>>
    /\ li = 1
    /\ cookie = <<>>
    /\ inflight = <<>>
    /\ shareInfo = NoShareInfo
    /\ playInfoUrl = NoUrl
    /\ initPlayInfo = NoPlayInfo
    /\ playInfo = NoPlayInfo
    /\ nextClipStartTime = 0
    /\ i = 0
    /\ mediaUrls = <<>>
    /\ mediaUrl = NoUrl
    /\ temporaryFilename = <<>>
    /\ filename = <<>>
    /\ readable = NoReadable
    /\ writers = <<>>
    /\ clock = 0
    /\ failedAttempts = <<>>
    /\ console = <<>>
    /\ logFiles = <<>>
    /\ lastError = ""
    /\ listed = 0
    /\ attempted = <<>>
    /\ faults = <<>>
    /\ linkSetCookie = <<>>
    /\ serverCursor = 0
    /\ clipsSeen = 0
    /\ owed = {}
    /\ sent = <<>>

Init ==
    /\ \/ /\ fs = [p \in {Path("cwd", urlTextFilename)} |-> 1]
          /\ inodes = 1
          /\ urlText \in UrlTexts
       \/ /\ fs = [p \in {} |-> 0]
          /\ inodes = 0
          /\ urlText = <<>>
    /\ pc = "startup"
    /\ arg = <<>>
    /\ ret = <<>>
    /\ NotStarted

\* The block-scoped variables of one loop iteration go out of scope.
LeaveLink ==
    /\ shareInfo' = NoShareInfo
    /\ playInfoUrl' = NoUrl
    /\ initPlayInfo' = NoPlayInfo
    /\ playInfo' = NoPlayInfo
    /\ nextClipStartTime' = 0
    /\ i' = 0
    /\ mediaUrls' = <<>>

\* The history of the share URL is dropped with it.
LeaveHistory ==
    /\ linkSetCookie' = <<>>
    /\ serverCursor' = 0
    /\ clipsSeen' = 0
    /\ owed' = {}
    /\ sent' = <<>>

LeaveDownload ==
    /\ mediaUrl' = NoUrl
    /\ temporaryFilename' = <<>>
    /\ filename' = <<>>
    /\ readable' = NoReadable

\* Faulty variant of the catch block: the loop is left (break).
CatchLinkBreaks(message) ==
    /\ failedAttempts' =
           Append(failedAttempts,
                  <<UrlText(TrimUrlSearchParams(recShareUrls[li]))>>)
    /\ console' = Append(console, Line(li, "red"))
    /\ lastError' = message
    /\ li' = Len(recShareUrls) + 1
    /\ pc' = "link"
    /\ LeaveLink
    /\ LeaveDownload

\* catch (e) of the share URL loop: failedAttempts.push(
\* trimUrlSearchParams(recShareUrl)); log('└', message, 'red'); continue
CatchLink(message) ==
    /\ failedAttempts' =
           Append(failedAttempts,
                  <<UrlText(TrimUrlSearchParams(recShareUrls[li]))>>)
    /\ console' = Append(console, Line(li, "red"))
    /\ lastError' = message
    /\ li' = li + 1
    /\ pc' = "link"
    /\ LeaveLink
    /\ LeaveDownload

\* Faulty variant of the Set: the array of the matches, duplicates kept.
MatchedArray(text) == SelectSeq(text, MatchesShareUrl)

\* new Set(urlText.match(/^https:...$/gm)): the lines that match, each
\* once, in the order of their first occurrence.
MatchedSet(text) == Dedup(SelectSeq(text, MatchesShareUrl))

\* The startup check and the statements before the loop: urls.txt is made
\* from the sample when it is missing, and read otherwise; an Error thrown
\* here is not caught and ends the process.  Then the Set of share URLs and
\* the download directory.
Startup ==
    /\ pc = "startup"
    /\ IF ~ExistsSync(fs, Path("cwd", urlTextFilename))
       THEN /\ fs' = [p \in DOMAIN fs \cup {Path("cwd", urlTextFilename)} |->
                         IF p \in DOMAIN fs THEN fs[p] ELSE inodes + 1]
            /\ inodes' = inodes + 1
            /\ urlText' = sampleUrls
            /\ lastError' = "urls.txt file is not found."
            /\ pc' = "aborted"
            /\ UNCHANGED <<recShareUrls, dirs>>
       ELSE /\ UNCHANGED <<urlText, fs, inodes>>
            /\ IF Includes(urlText, samplePathname)
               THEN /\ lastError' = "Sample URL(s) are found."
                    /\ pc' = "aborted"
                    /\ UNCHANGED <<recShareUrls, dirs>>
               ELSE /\ recShareUrls' =
                           [k \in 1..Len(MatchedSet(urlText)) |->
                                MatchedSet(urlText)[k].url]
                    /\ IF Len(recShareUrls') = 0
                       THEN /\ lastError' = "No valid URL(s) are found."
                            /\ pc' = "aborted"
                            /\ UNCHANGED dirs
                       ELSE /\ dirs' = dirs \cup {downloadDirectory}
                            /\ lastError' = ""
                            /\ pc' = "link"
    /\ UNCHANGED <<arg, ret, li, cookie, inflight, linkLocals,
                   downloadLocals, writers, clock, failedAttempts, console,
                   logFiles, ghosts>>

\* Faulty variant of the reset: the cookie header of the share URL
\* before is kept.
CookieKept(old) == old

\* headers.set('cookie', ''), the first statement of the loop body.
CookieReset(old) == <<>>

\* for (const recShareUrl of recShareUrls): headers.set('cookie', '') and
\* the request to /share-info.
StartLink ==
    /\ pc = "link"
    /\ li <= Len(recShareUrls)
    /\ cookie' = CookieReset(cookie)
    /\ inflight' = <<Request("share-info", ShareInfoUrl(recShareUrls[li]),
                             cookie', li, 0)>>
    /\ attempted' = Append(attempted, li)
    /\ sent' = Append(sent, <<"share-info", 0>>)
    /\ lastError' = ""
    /\ pc' = "share-info"
    /\ UNCHANGED <<inputs, recShareUrls, li, linkLocals, downloadLocals, disk, clock,
                   failedAttempts, console, logFiles, listed, faults,
                   linkSetCookie, serverCursor, clipsSeen, owed>>

\* Faulty variant of the checks of the /share-info response: redirectUrl
\* is not looked at.
ShareInfoFailureSkipsRedirect(response) ==
    LET body == response.body
    IN IF ~response.ok THEN "Request to /share-info has failed."
       ELSE IF body.kind = "not-json" THEN "SyntaxError"
       ELSE IF body.kind = "null"
            THEN "Recording does not exist. Check if the URL requires a password."
       ELSE IF body.hasValidToken = "false"
            THEN "Valid token is not found. Check if the URL requires additional actions."
       ELSE ""

\* The message of the error the /share-info response makes the script
\* throw ("" when none): response.ok, response.json(), and the three checks
\* of shareInfo.
ShareInfoFailure(response) ==
    LET body == response.body
    IN IF ~response.ok THEN "Request to /share-info has failed."
       ELSE IF body.kind = "not-json" THEN "SyntaxError"
       ELSE IF body.kind = "null"
            THEN "Recording does not exist. Check if the URL requires a password."
       ELSE IF body.hasValidToken = "false"
            THEN "Valid token is not found. Check if the URL requires additional actions."
       ELSE IF body.redirectUrl = <<>>
            THEN "Record play URL is not found."
       ELSE ""

\* The /share-info response: the cookies, the checks of shareInfo and the
\* request to the play page.
ShareInfoResponse ==
    /\ pc = "share-info"
    /\ Quiet
    /\ \E response \in ShareInfoResponses(li) :
        LET body == response.body
            failure == ShareInfoFailure(response)
            recPlayUrl ==
                Url(recShareUrls[li].origin, body.redirectUrl,
                    IF body.pwd # "" THEN <<<<"pwd", body.pwd>>>> ELSE <<>>)
        IN /\ cookie' = IF response.ok
                        THEN CookieAfterShareInfo(cookie, response.cookies)
                        ELSE cookie
           /\ IF failure # ""
              THEN /\ CatchLink(failure)
                   /\ inflight' = <<>>
                   /\ faults' = Append(faults, Fault(li, NoUrl))
                   /\ LeaveHistory
              ELSE /\ shareInfo' = body
                   /\ linkSetCookie' = response.cookies
                   /\ inflight' = <<Request("rec-play", recPlayUrl, cookie',
                                            li, 0)>>
                   /\ sent' = Append(sent, <<"rec-play", 0>>)
                   /\ pc' = "rec-play"
                   /\ UNCHANGED <<li, playInfoUrl, initPlayInfo, playInfo,
                                  nextClipStartTime, i, mediaUrls,
                                  downloadLocals, failedAttempts, console,
                                  lastError, faults, serverCursor,
                                  clipsSeen, owed>>
    /\ UNCHANGED <<inputs, recShareUrls, disk, clock, logFiles, listed, attempted>>

\* The play page response: the fileId and the first /play/info request.
RecPlayResponse ==
    /\ pc = "rec-play"
    /\ Quiet
    /\ \E response \in RecPlayResponses(li) :
        LET failure ==
                IF ~response.ok THEN "Request to /rec/play has failed."
                ELSE IF response.fileId = "" THEN "File ID is not found."
                ELSE ""
            withPwd ==
                IF shareInfo.pwd # "" THEN <<<<"pwd", shareInfo.pwd>>>>
                ELSE <<>>
            url ==
                Url(recShareUrls[li].origin,
                    <<"nws", "recording", "1.0", "play", "info",
                      response.fileId>>,
                    SearchParamsSet(SearchParamsSet(SearchParamsSet(
                        SearchParamsSet(withPwd, "canPlayFromShare", "true"),
                        "from", "share_recording_detail"),
                        "continueMode", "true"),
                        "componentName", "rec-play"))
        IN IF failure # ""
           THEN /\ CatchLink(failure)
                /\ inflight' = <<>>
                /\ faults' = Append(faults, Fault(li, NoUrl))
                /\ LeaveHistory
           ELSE /\ playInfoUrl' = url
                /\ inflight' = <<Request("play-info", url, cookie, li, 1)>>
                /\ sent' = Append(sent, <<"play-info", 1>>)
                /\ pc' = "play-info"
                /\ UNCHANGED <<li, shareInfo, initPlayInfo, playInfo,
                               nextClipStartTime, i, mediaUrls,
                               downloadLocals, failedAttempts, console,
                               lastError, faults, linkSetCookie,
                               serverCursor, clipsSeen, owed>>
    /\ UNCHANGED <<inputs, recShareUrls, cookie, disk, clock, logFiles, listed,
                   attempted>>

\* What the script reads of a PlayInfo once nextClipStartTime and the media
\* URLs are taken from it: meet.topic, and totalClips of the first one.
Retained(clip, result) ==
    [result EXCEPT !.totalClips = IF clip = 1 THEN @ ELSE 0,
                   !.nextClipStartTime = 0, !.fields = <<>>]

\* The media URLs a /play/info result lists, as the server sees them.
Listed(result) ==
    {result.fields[k].url : k \in {n \in 1..Len(result.fields) :
         result.fields[n].type = "string"
         /\ result.fields[n].url.origin = "https://ssrweb.zoom.us"}}

\* Faulty variant of the cursor update: the cursor of the first response is
\* kept for every later clip.
NextCursorKeepsFirst(clip, result, old) ==
    IF clip = 1 THEN result.nextClipStartTime ELSE old

\* let nextClipStartTime = initPlayInfo.nextClipStartTime, and
\* nextClipStartTime = result.nextClipStartTime for a later clip.
NextCursor(clip, result, old) == result.nextClipStartTime

\* A /play/info response, of the first clip or of a later one: the
\* PlayInfo of the clip, the cursor and the media URLs of the clip.
PlayInfoResponse ==
    /\ pc = "play-info"
    /\ Quiet
    /\ LET clip == inflight[1].clip
       IN \E response \in
              PlayInfoResponses(clip, initPlayInfo.totalClips,
                  IF linkSetCookie = SessionCookies(li)
                  THEN MaxMedia - listed ELSE 0,
                  IF li = Len(recShareUrls) THEN LaterTopics ELSE Topics) :
           LET failure ==
                   IF ~response.ok
                   THEN IF clip = 1 THEN "Request to /play/info has failed."
                        ELSE "Request to /play/info has failed. (i)"
                   ELSE IF ~response.hasResult THEN "TypeError"
                   ELSE ""
               result == response.result
           IN IF failure # ""
              THEN /\ CatchLink(failure)
                   /\ inflight' = <<>>
                   /\ faults' = Append(faults, Fault(li, NoUrl))
                   /\ LeaveHistory
                   /\ UNCHANGED listed
              ELSE /\ initPlayInfo' = IF clip = 1 THEN Retained(clip, result)
                                      ELSE initPlayInfo
                   /\ playInfo' = Retained(clip, result)
                   /\ nextClipStartTime' =
                          NextCursor(clip, result, nextClipStartTime)
                   /\ i' = clip
                   /\ mediaUrls' = IF clip <= initPlayInfo'.totalClips
                                    THEN ExtractMediaUrls(result)
                                    ELSE <<>>
                   /\ inflight' = <<>>
                   /\ pc' = "media"
                   /\ serverCursor' = result.nextClipStartTime
                   /\ clipsSeen' = IF clip <= initPlayInfo'.totalClips
                                   THEN clipsSeen + 1
                                   ELSE clipsSeen
                   /\ owed' = Listed(result)
                   /\ listed' = listed + Cardinality(Listed(result))
                   /\ UNCHANGED <<li, shareInfo, playInfoUrl, downloadLocals,
                                  failedAttempts, console, lastError,
                                  faults, linkSetCookie, sent>>
    /\ UNCHANGED <<inputs, recShareUrls, cookie, disk, clock, logFiles, attempted>>

\* Faulty variant of the loop increment: the clip index stays.
SameIndex(n) == n

\* i++ of for (let i = 1; i <= initPlayInfo.totalClips; i++)
NextIndex(n) == n + 1

\* Faulty variant of the loop condition: totalClips of the PlayInfo of
\* the clip at hand.
LoopBoundOfLatest(first, latest) == latest.totalClips

\* i <= initPlayInfo.totalClips: the bound of the clip loop is totalClips
\* of the first /play/info result.
LoopBound(first, latest) == first.totalClips

\* The clip loop goes on to clip i + 1: the cursor is set on playInfoUrl
\* and /play/info is requested again.
NextClip ==
    /\ pc = "media"
    /\ mediaUrls = <<>>
    /\ NextIndex(i) <= LoopBound(initPlayInfo, playInfo)
    /\ i' = NextIndex(i)
    /\ playInfoUrl' =
           [playInfoUrl EXCEPT !.search =
                SearchParamsSet(@, "startTime",
                                NumberToString(nextClipStartTime))]
    /\ inflight' = <<Request("play-info", playInfoUrl', cookie, li, i')>>
    /\ sent' = Append(sent, <<"play-info", i'>>)
    /\ playInfo' = initPlayInfo
    /\ lastError' = ""
    /\ pc' = "play-info"
    /\ UNCHANGED <<inputs, recShareUrls, li, cookie, shareInfo, initPlayInfo,
                   nextClipStartTime, mediaUrls, downloadLocals,
                   disk, clock, failedAttempts, console, logFiles,
                   attempted, faults, linkSetCookie, serverCursor,
                   clipsSeen, owed, listed>>

\* The clip loop is over: log('└', 'Completed.') and the next share URL.
Completed ==
    /\ pc = "media"
    /\ mediaUrls = <<>>
    /\ NextIndex(i) > LoopBound(initPlayInfo, playInfo)
    /\ console' = Append(console, Line(li, "Completed."))
    /\ li' = li + 1
    /\ pc' = "link"
    /\ lastError' = ""
    /\ LeaveLink
    /\ LeaveHistory
    /\ UNCHANGED <<inputs, recShareUrls, cookie, inflight, downloadLocals, disk,
                   clock, failedAttempts, logFiles, attempted, faults,
                   listed>>

\* for (const mediaUrl of mediaUrls): the temporary file name and the
\* request of the media file.
FetchMedia ==
    /\ pc = "media"
    /\ mediaUrls # <<>>
    /\ \E now \in ClockReadings :
        /\ clock' = now
        /\ temporaryFilename' = TemporaryFilename(now)
    /\ mediaUrl' = Head(mediaUrls)
    /\ mediaUrls' = Tail(mediaUrls)
    /\ inflight' = <<Request("media", mediaUrl', cookie, li, i)>>
    /\ owed' = owed \ {mediaUrl'}
    /\ lastError' = ""
    /\ pc' = "media-fetch"
    /\ UNCHANGED <<inputs, recShareUrls, li, cookie, shareInfo, playInfoUrl,
                   initPlayInfo, playInfo, nextClipStartTime, i, filename,
                   readable, disk, failedAttempts, console, logFiles,
                   attempted, faults,
                   linkSetCookie, serverCursor, clipsSeen, listed, sent>>

\* Faulty variant of the catch block of the media loop: the loop over the
\* media URLs of the clip is left (break).
CatchMediaBreaks(message) ==
    /\ failedAttempts' =
           Append(failedAttempts,
                  << UrlText(TrimUrlSearchParams(recShareUrls[li])),
                     Text("\n"),
                     UrlText(TrimUrlSearchParams(mediaUrl)) >>)
    /\ console' = Append(console, Line(li, "red"))
    /\ lastError' = message
    /\ pc' = "media"
    /\ mediaUrls' = <<>>
    /\ LeaveDownload
    /\ UNCHANGED <<li, i>>

\* catch (e) of the media loop: failedAttempts.push(
\* trimUrlSearchParams(recShareUrl) + '\n' + trimUrlSearchParams(mediaUrl));
\* log('│', message, 'red'); continue
CatchMedia(message) ==
    /\ failedAttempts' =
           Append(failedAttempts,
                  << UrlText(TrimUrlSearchParams(recShareUrls[li])),
                     Text("\n"),
                     UrlText(TrimUrlSearchParams(mediaUrl)) >>)
    /\ console' = Append(console, Line(li, "red"))
    /\ lastError' = message
    /\ pc' = "media"
    /\ LeaveDownload
    /\ UNCHANGED <<li, i, mediaUrls>>

\* finally { ...; if (existsSync(temporaryFilename))
\* unlinkSync(temporaryFilename) }: both paths are relative to the working
\* directory of the process.
Cleanup(f) ==
    IF ExistsSync(f, Path("cwd", temporaryFilename))
    THEN UnlinkSync(f, Path("cwd", temporaryFilename))
    ELSE f

\* The response of the media request: createWriteStream on the temporary
\* file of the download directory, Readable.fromWeb(response.body) and
\* readable.pipe(writeStream); the final file name.
MediaResponse ==
    /\ pc = "media-fetch"
    /\ Quiet
    /\ inflight' = <<>>
    /\ \E response \in MediaResponses :
           IF response = "not-ok"
           THEN /\ CatchMedia("Requesting the media file has failed.")
                /\ faults' = Append(faults, Fault(li, mediaUrl))
                /\ UNCHANGED writers
           ELSE /\ writers' =
                       Append(writers,
                              Writer(Path(downloadDirectory,
                                          temporaryFilename), 0, 0, FALSE))
                /\ IF response = "no-body"
                   THEN /\ CatchMedia("TypeError")
                        /\ faults' = Append(faults, Fault(li, mediaUrl))
                   ELSE /\ readable' = Readable(TRUE, 0)
                        /\ filename' =
                               SafeFilename(playInfo.meet, mediaUrl, clock)
                        /\ pc' = AwaitStream
                        /\ UNCHANGED <<li, i, mediaUrls, mediaUrl,
                                       temporaryFilename, failedAttempts,
                                       console, lastError, faults>>
    /\ UNCHANGED <<inputs, recShareUrls, cookie, shareInfo, playInfoUrl,
                   initPlayInfo, playInfo, nextClipStartTime, fs, inodes,
                   clock, logFiles, attempted, linkSetCookie, serverCursor,
                   clipsSeen, owed, listed, sent>>

\* readable 'data': a chunk has arrived from the network; pipe hands it to
\* writeStream.write(), which buffers it until the file system has written
\* it.
StreamData ==
    /\ pc = "streaming"
    /\ Quiet
    /\ readable.chunks < MaxChunks
    /\ readable' = [readable EXCEPT !.chunks = @ + 1]
    /\ writers' = [writers EXCEPT ![Len(writers)].buffered = @ + 1]
    /\ UNCHANGED <<inputs, recShareUrls, pc, li, cookie, inflight, linkLocals,
                   mediaUrl, temporaryFilename, filename, fs, inodes, clock,
                   failedAttempts, console, logFiles, lastError, ghosts>>

\* readable 'end': pipe ends the write stream, the listener of the script
\* renames the temporary file and resolves; then the finally block.
StreamEnd ==
    /\ pc = "streaming"
    /\ writers' = EndWriter(writers)
    /\ IF ExistsSync(fs, Path(downloadDirectory, temporaryFilename))
       THEN /\ fs' = Cleanup(RenameSync(fs,
                         Path(downloadDirectory, temporaryFilename),
                         Path(downloadDirectory, filename)))
            /\ console' = Append(console, Line(li, "Saved"))
            /\ pc' = "media"
       ELSE \* renameSync throws in the listener: an uncaught exception
            /\ pc' = "crashed"
            /\ UNCHANGED <<fs, console>>
    /\ LeaveDownload
    /\ UNCHANGED <<inputs, recShareUrls, li, cookie, inflight, linkLocals, inodes,
                   clock, failedAttempts, logFiles, lastError, ghosts>>

\* readable 'error': the promise rejects; the finally block, then the
\* catch block of the media loop.
StreamError ==
    /\ pc = "streaming"
    /\ writers' = EndWriter(writers)
    /\ fs' = Cleanup(fs)
    /\ CatchMedia("Failed to stream the media file.")
    /\ faults' = Append(faults, Fault(li, mediaUrl))
    /\ UNCHANGED <<inputs, recShareUrls, cookie, inflight, shareInfo, playInfoUrl,
                   initPlayInfo, playInfo, nextClipStartTime, inodes,
                   clock, logFiles, attempted, linkSetCookie,
                   serverCursor, clipsSeen, owed, listed, sent>>

\* The positions at which the script is suspended (an await, or its end).
\* Between two of them it runs without looking at the disk, so the work of
\* the file system is taken to complete at one of them.
Suspended ==
    pc \in {"share-info", "rec-play", "play-info", "media-fetch",
            "streaming", "done"}

\* The file system completes the open of a write stream: the file is
\* there from now on.
OpenFile ==
    /\ Suspended
    /\ \E w \in 1..Len(writers) :
        /\ writers[w].ino = 0
        /\ LET opened == OpenForWriting(writers[w].path)
           IN /\ fs' = opened[1]
              /\ inodes' = opened[2]
              /\ writers' =
                     OpenWriters([writers EXCEPT ![w].ino = opened[3]])
    /\ UNCHANGED <<inputs, recShareUrls, pc, li, cookie, inflight, linkLocals,
                   downloadLocals, clock, failedAttempts, console,
                   logFiles, lastError, ghosts>>

\* The file system completes one buffered write of a write stream.
Flush ==
    /\ Suspended
    /\ \E w \in 1..Len(writers) :
        /\ writers[w].ino # 0
        /\ writers[w].buffered > 0
        /\ writers' = OpenWriters([writers EXCEPT ![w].buffered = @ - 1])
    /\ UNCHANGED <<inputs, recShareUrls, pc, li, cookie, inflight, linkLocals,
                   downloadLocals, fs, inodes, clock, failedAttempts, console,
                   logFiles, lastError, ghosts>>

LogFile(name, content) == [name |-> name, content |-> content]

\* Faulty variant of logs.failed: the last record alone.
LogsFailedLastOnly ==
    IF failedAttempts = <<>> THEN <<Text("\n")>>
    ELSE Last(failedAttempts) \o <<Text("\n")>>

\* logs.failed: failedAttempts.join('\n\n') + '\n'
LogsFailed ==
    Join(failedAttempts, <<Text("\n\n")>>) \o <<Text("\n")>>

\* logs.processed: [...recShareUrls].join('\n') + '\n'
LogsProcessed ==
    Join([k \in 1..Len(recShareUrls) |-> <<UrlText(recShareUrls[k])>>],
         <<Text("\n")>>) \o <<Text("\n")>>

\* urlText, the text read from urls.txt.
UrlTextOfFile ==
    Join([k \in 1..Len(urlText) |-> <<urlText[k]>>], <<Text("\n")>>)

\* After the loop: the requested and processed logs and, if (logs.failed),
\* the failed log and the two summary lines.
WriteLogs ==
    /\ pc = "link"
    /\ li > Len(recShareUrls)
    /\ \E now \in ClockReadings :
        /\ clock' = now
        /\ logFiles' =
               << LogFile(<<TimeToString(now), "-requested.txt">>,
                          UrlTextOfFile),
                  LogFile(<<TimeToString(now), "-processed.txt">>,
                          LogsProcessed) >>
               \o IF Truthy(LogsFailed)
                  THEN <<LogFile(<<TimeToString(now), "-failed.txt">>,
                                 LogsFailed)>>
                  ELSE <<>>
    /\ console' = IF Truthy(LogsFailed)
                  THEN console \o << Line(0, "Found failed attempts."),
                                     Line(0, "Reference") >>
                  ELSE console
    /\ lastError' = ""
    /\ pc' = "done"
    /\ UNCHANGED <<inputs, recShareUrls, li, cookie, inflight, linkLocals,
                   downloadLocals, disk, failedAttempts, ghosts>>

Next ==
    \/ Startup
    \/ StartLink
    \/ ShareInfoResponse
    \/ RecPlayResponse
    \/ PlayInfoResponse
    \/ NextClip
    \/ Completed
    \/ FetchMedia
    \/ MediaResponse
    \/ StreamData
    \/ StreamEnd
    \/ StreamError
    \/ OpenFile
    \/ Flush
    \/ WriteLogs

Spec == Init /\ [][Next]_vars

----------------------------------------------------------------------------
(* The functions of the script called alone, on arguments of bounded size *)

\* The extraction of the media URLs is about to be called on a result.
InitExtract ==
    /\ pc = "extractMediaUrls"
    /\ arg \in {PlayInfo(topic, 1, -1, fields) :
                    topic \in Topics, fields \in SeqsUpTo(FieldValues, MaxFields)}
    /\ ret = <<>>
    /\ urlText = <<>>
    /\ fs = [p \in {} |-> 0]
    /\ inodes = 0
    /\ NotStarted

\* const mediaUrls = new Set(Object.values(playInfo).filter(...))
Extract ==
    /\ pc = "extractMediaUrls"
    /\ ret' = ExtractMediaUrls(arg)
    /\ pc' = "returned"
    /\ UNCHANGED <<arg, urlText, dirs, recShareUrls, li, cookie, inflight,
                   linkLocals, downloadLocals, disk, clock, failedAttempts,
                   console, logFiles, lastError, ghosts>>

SpecExtract == InitExtract /\ [][Extract]_vars

\* The characters of the names: a letter, the space, the hyphen, and the
\* characters the function replaces.
NameChars ==
    {"a", " ", "-", "<", ">", ":", "\"", "/", "\\", "|", "?", "*"}

RECURSIVE ReplaceAll(_, _, _)
\* String.prototype.replaceAll(pattern, replacement) for a pattern that is
\* a string: the occurrences from left to right, none overlapping another.
ReplaceAll(str, pattern, replacement) ==
    IF Len(str) < Len(pattern) THEN str
    ELSE IF SubSeq(str, 1, Len(pattern)) = pattern
    THEN replacement
             \o ReplaceAll(SubSeq(str, Len(pattern) + 1, Len(str)),
                           pattern, replacement)
    ELSE <<Head(str)>> \o ReplaceAll(Tail(str), pattern, replacement)

\* .replace(/[<>:"/\\|?*]/g, '-')
ReplaceReserved(str) ==
    [k \in 1..Len(str) |->
         IF str[k] \in {"<", ">", ":", "\"", "/", "\\", "|", "?", "*"}
         THEN "-" ELSE str[k]]

RECURSIVE CollapseHyphens(_)
\* .replace(/-{2,}/g, '-')
CollapseHyphens(str) ==
    IF Len(str) < 2 THEN str
    ELSE IF str[1] = "-" /\ str[2] = "-" THEN CollapseHyphens(Tail(str))
    ELSE <<Head(str)>> \o CollapseHyphens(Tail(str))

\* Faulty variant: the runs of hyphens are collapsed before the reserved
\* characters are replaced.
ConvertCollapsingFirst(name) ==
    ReplaceReserved(
        CollapseHyphens(
            ReplaceAll(ReplaceAll(name, <<" ", "/", " ">>, <<",", " ">>),
                       <<":", " ">>, <<" ", "-", " ">>)))

\* name.replaceAll(' / ', ', ').replaceAll(': ', ' - ')
\*     .replace(/[<>:"/\\|?*]/g, '-').replace(/-{2,}/g, '-')
convertToSafeName(name) ==
    CollapseHyphens(
        ReplaceReserved(
            ReplaceAll(ReplaceAll(name, <<" ", "/", " ">>, <<",", " ">>),
                       <<":", " ">>, <<" ", "-", " ">>)))

\* convertToSafeName is about to be called on a name.
InitSafeName ==
    /\ pc = "convertToSafeName"
    /\ arg \in SeqsUpTo(NameChars, MaxName)
    /\ ret = <<>>
    /\ urlText = <<>>
    /\ fs = [p \in {} |-> 0]
    /\ inodes = 0
    /\ NotStarted

\* The function is called on the name, and then on what it has returned.
Convert ==
    /\ pc = "convertToSafeName"
    /\ Len(ret) < 2
    /\ ret' = Append(ret, convertToSafeName(IF ret = <<>> THEN arg
                                            ELSE Last(ret)))
    /\ pc' = IF Len(ret') = 2 THEN "returned" ELSE pc
    /\ UNCHANGED <<arg, urlText, dirs, recShareUrls, li, cookie, inflight,
                   linkLocals, downloadLocals, disk, clock, failedAttempts,
                   console, logFiles, lastError, ghosts>>

SpecSafeName == InitSafeName /\ [][Convert]_vars

\* The characters of a token of a header, as the string iterator yields
\* them.
Spell(token) ==
    CASE token = "_zm_ssid" -> <<"_", "z", "m", "_", "s", "s", "i", "d">>
      [] token = "cred" -> <<"c", "r", "e", "d">>
      [] token = "lang" -> <<"l", "a", "n", "g">>
      [] token = "Path" -> <<"P", "a", "t", "h">>
      [] token = "TS01a2b3c4" ->
             <<"T", "S", "0", "1", "a", "2", "b", "3", "c", "4">>
      [] token = "TS09f8e7d6" ->
             <<"T", "S", "0", "9", "f", "8", "e", "7", "d", "6">>
      [] token = "TS01a2b3c" ->
             <<"T", "S", "0", "1", "a", "2", "b", "3", "c">>
      [] token = "v1" -> <<"v", "1">>
      [] token = "v2" -> <<"v", "2">>
      [] OTHER -> <<token>>

RECURSIVE Characters(_)
\* [...str]: the characters of a string given by its tokens.
Characters(str) ==
    IF str = <<>> THEN <<>> ELSE Spell(Head(str)) \o Characters(Tail(str))

\* The cookies a /share-info response may set, for the scan of the
\* map-based variant: the two recognized names and another one, two
\* values, with and without attributes.
ScannedCookies ==
    { Cookie(<<name>>, <<value>>, attributes) :
          name \in {"_zm_ssid", "cred", "lang"},
          value \in {"v1", "v2"},
          attributes \in {<<>>, CookieAttributes} }

\* cookieMap.set(name, value) on a Map kept as its entries in insertion
\* order: the value of an existing key is replaced in place.
MapSet(map, key, value) ==
    IF \E n \in 1..Len(map) : map[n][1] = key
    THEN [n \in 1..Len(map) |->
              IF map[n][1] = key THEN <<key, value>> ELSE map[n]]
    ELSE Append(map, <<key, value>>)

\* const [, name, value] of a match: with the g flag String.prototype.match
\* returns the matched substrings, so the pattern destructures a string,
\* by its iterator: name is its second character and value its third
\* (undefined, written <<>>, when there is none).
Destructure(match) ==
    LET chars == Characters(match)
    IN << IF Len(chars) >= 2 THEN <<chars[2]>> ELSE <<>>,
          IF Len(chars) >= 3 THEN <<chars[3]>> ELSE <<>> >>

RECURSIVE SetAll(_, _)
\* for (const [, name, value] of matches) cookieMap.set(name, value)
SetAll(map, matches) ==
    IF matches = <<>> THEN map
    ELSE LET pair == Destructure(Head(matches))
         IN SetAll(MapSet(map, pair[1], pair[2]), Tail(matches))

\* [...cookieMap].map(([key, value]) => `${key}=${value};`).join(' ')
createHeaders(map) ==
    Join([n \in 1..Len(map) |-> map[n][1] \o <<"=">> \o map[n][2] \o <<";">>],
         <<" ">>)

\* The scan is about to be run on the cookies of a /share-info response;
\* cookieMap (ret) is empty, as cookieMap.clear() leaves it.
InitCookieMap ==
    /\ pc = "cookieMap"
    /\ arg \in SeqsUpTo(ScannedCookies, MaxCookies)
    /\ ret = <<>>
    /\ urlText = <<>>
    /\ fs = [p \in {} |-> 0]
    /\ inodes = 0
    /\ NotStarted

\* The for-of loop over shareInfoResponse.headers.get('set-cookie')
\* ?.match(/(_zm_ssid|cred)=([^;]+)/g) || [].
ScanSetCookie ==
    /\ pc = "cookieMap"
    /\ ret' = SetAll(ret, MatchCookies(SetCookieHeader(arg), 1))
    /\ pc' = "scanned"
    /\ UNCHANGED <<arg, urlText, dirs, recShareUrls, li, cookie, inflight,
                   linkLocals, downloadLocals, disk, clock, failedAttempts,
                   console, logFiles, lastError, ghosts>>

\* createHeaders() of the play page request: the Cookie header is written
\* from the map.
CreateHeaders ==
    /\ pc = "scanned"
    /\ cookie' = createHeaders(ret)
    /\ pc' = "returned"
    /\ UNCHANGED <<arg, ret, urlText, dirs, recShareUrls, li, inflight,
                   linkLocals, downloadLocals, disk, clock, failedAttempts,
                   console, logFiles, lastError, ghosts>>

SpecCookieMap == InitCookieMap /\ [][ScanSetCookie \/ CreateHeaders]_vars

\* regex.zoomCookieTs, /^TS.{8}$/, on a name given by its tokens: the name
\* is TS and eight more characters, none of them a line terminator.
zoomCookieTs(name) ==
    LET chars == Characters(name)
    IN /\ Len(chars) = 10
       /\ chars[1] = "T"
       /\ chars[2] = "S"
       /\ \A n \in 3..10 : chars[n] \notin {"\n", "\r"}

\* End of the longest run of tokens outside excluded that starts at from
\* (from - 1 when there is none).
RECURSIVE RunEnd(_, _, _)
RunEnd(str, from, excluded) ==
    IF from <= Len(str) /\ str[from] \notin excluded
    THEN RunEnd(str, from + 1, excluded)
    ELSE from - 1

\* The position after ';? *' from position from on.
RECURSIVE SkipSpaces(_, _)
SkipSpaces(str, from) ==
    IF from <= Len(str) /\ str[from] = " " THEN SkipSpaces(str, from + 1)
    ELSE from

AfterSeparator(str, from) ==
    SkipSpaces(str, IF from <= Len(str) /\ str[from] = ";" THEN from + 1
                    ELSE from)

Weekdays == {"Mon", "Tue", "Wed", "Thu", "Fri", "Sat", "Sun"}

\* The position after
\* (?:[^,= ]+(?:=(?:Mon,|...|Sun,)?[^,;]+)?;? *)* from position from on:
\* the attributes of a cookie, up to the comma before the next one.
RECURSIVE AttributesEnd(_, _)
AttributesEnd(str, from) ==
    LET nameEnd == RunEnd(str, from, {",", "=", " "})
        hasEquals == nameEnd + 1 <= Len(str) /\ str[nameEnd + 1] = "="
        afterDay == IF /\ nameEnd + 3 <= Len(str)
                       /\ str[nameEnd + 2] \in Weekdays
                       /\ str[nameEnd + 3] = ","
                       /\ RunEnd(str, nameEnd + 4, {",", ";"}) >= nameEnd + 4
                    THEN nameEnd + 4
                    ELSE nameEnd + 2
        valueEnd == RunEnd(str, afterDay, {",", ";"})
    IN IF nameEnd < from THEN from
       ELSE IF hasEquals /\ valueEnd >= afterDay
            THEN AttributesEnd(str, AfterSeparator(str, valueEnd + 1))
            ELSE AttributesEnd(str, AfterSeparator(str, nameEnd + 1))

\* str.matchAll(regex.httpSetCookieHeader) from position from on: the
\* pairs of the two capture groups, key and value, of the matches.
RECURSIVE httpSetCookieHeader(_, _)
httpSetCookieHeader(str, from) ==
    IF from > Len(str) THEN <<>>
    ELSE LET keyEnd == RunEnd(str, from, {",", "=", " "})
             valueEnd == RunEnd(str, keyEnd + 2, {",", ";"})
         IN IF /\ keyEnd >= from
               /\ keyEnd + 1 <= Len(str)
               /\ str[keyEnd + 1] = "="
               /\ valueEnd >= keyEnd + 2
            THEN << <<SubSeq(str, from, keyEnd),
                      SubSeq(str, keyEnd + 2, valueEnd)>> >>
                 \o httpSetCookieHeader(
                        str, AttributesEnd(str,
                                           AfterSeparator(str, valueEnd + 1)))
            ELSE httpSetCookieHeader(str, from + 1)

\* encodeURI(value): a space is escaped; the other characters of the
\* values are left as they are.
encodeURI(str) ==
    [n \in 1..Len(str) |-> IF str[n] = " " THEN "%20" ELSE str[n]]

\* cookieMap.delete(key)
MapDelete(map, key) == SelectSeq(map, LAMBDA entry : entry[1] # key)

\* Faulty variant of removeTsCookie: nothing is deleted.
removeNoCookie(map) == map

\* removeTsCookie: every key that matches regex.zoomCookieTs is deleted.
removeTsCookie(map) == SelectSeq(map, LAMBDA entry : ~zoomCookieTs(entry[1]))

RECURSIVE SetCookies(_, _)
\* for (const [, key, value] of matches) {
\*     if (key.match(regex.zoomCookieTs)) removeTsCookie();
\*     cookieMap.set(key, value) }
SetCookies(map, pairs) ==
    IF pairs = <<>> THEN map
    ELSE LET key == Head(pairs)[1]
             cleared == IF zoomCookieTs(key) THEN removeTsCookie(map) ELSE map
         IN SetCookies(MapSet(cleared, key, Head(pairs)[2]), Tail(pairs))

\* updateCookie(response), on the Set-Cookie header of the response.
updateCookie(map, header) == SetCookies(map, httpSetCookieHeader(header, 1))

\* for (const { name, value } of cookies): the import of the cookies of the
\* browser, each value through encodeURI.
importCookies(map, cookies) ==
    SetCookies(map, [n \in 1..Len(cookies) |->
                        <<cookies[n].name, encodeURI(cookies[n].value)>>])

\* The cookies the pages of a share URL may set: two that match the TS
\* pattern, one named TS and seven more characters, and cred.
PageCookies ==
    { Cookie(<<"TS01a2b3c4">>, <<"v1">>, CookieAttributes),
      Cookie(<<"TS09f8e7d6">>, <<"v2">>,
             <<";", " ", "Expires", "=", "Wed", ",", " ", "21-Oct-2026",
               ";", " ", "HttpOnly">>),
      Cookie(<<"TS01a2b3c">>, <<"v1">>, <<>>),
      Cookie(<<"cred">>, <<"v1">>, CookieAttributes) }

\* The cookies Network.getAllCookies may report.
BrowserCookies ==
    { Cookie(<<"TS01a2b3c4">>, <<"v2">>, <<>>),
      Cookie(<<"TS09f8e7d6">>, <<"v1", " ", "v2">>, <<>>),
      Cookie(<<"TS01a2b3c">>, <<"v2">>, <<>>),
      Cookie(<<"cdn_detect_result">>, <<"v1">>, <<>>) }

\* A share URL has been matched and its cookieMap (ret) made; the first
\* page is requested.
InitScrape ==
    /\ pc = "initial-page"
    /\ arg = <<>>
    /\ ret = <<>>
    /\ urlText = <<>>
    /\ fs = [p \in {} |-> 0]
    /\ inodes = 0
    /\ NotStarted

\* The first page is answered: updateCookie(response), and the clip loop
\* is entered.
UpdateCookie ==
    /\ pc = "initial-page"
    /\ \E cookies \in SeqsUpTo(PageCookies, MaxCookies) :
        /\ arg' = cookies
        /\ ret' = updateCookie(ret, SetCookieHeader(cookies))
    /\ i' = 1
    /\ pc' = "clip"
    /\ UNCHANGED <<urlText, dirs, recShareUrls, li, cookie, inflight,
                   shareInfo, playInfoUrl, initPlayInfo, playInfo,
                   nextClipStartTime, mediaUrls, downloadLocals, disk, clock,
                   failedAttempts, console, logFiles, lastError, ghosts>>

\* if (!matchedMediaUrls.length): the page names no media URL, the share
\* URL is opened in the browser and the cookies of the browser are
\* imported.
ImportCookies ==
    /\ pc = "clip"
    /\ \E cookies \in SeqsUpTo(BrowserCookies, MaxCookies) :
        /\ arg' = cookies
        /\ ret' = importCookies(ret, cookies)
    /\ pc' = "clip-media"
    /\ UNCHANGED <<urlText, dirs, recShareUrls, li, cookie, inflight,
                   linkLocals, downloadLocals, disk, clock, failedAttempts,
                   console, logFiles, lastError, ghosts>>

\* The page of the clip names its media URLs: no browser is needed.
MediaUrlsMatched ==
    /\ pc = "clip"
    /\ pc' = "clip-media"
    /\ UNCHANGED <<arg, ret, urlText, dirs, recShareUrls, li, cookie, inflight,
                   linkLocals, downloadLocals, disk, clock, failedAttempts,
                   console, logFiles, lastError, ghosts>>

\* cookieMap.delete('cdn_detect_result'); cookieMap.delete('cred'); the
\* media files of the clip; then the next clip, or the end of the loop when
\* the clip was the last one of totalClipCount.
DeleteCookies ==
    /\ pc = "clip-media"
    /\ ret' = MapDelete(MapDelete(ret, <<"cdn_detect_result">>), <<"cred">>)
    /\ \/ /\ i < MaxClips
          /\ i' = i + 1
          /\ pc' = "clip"
       \/ /\ i' = i
          /\ pc' = "returned"
    /\ UNCHANGED <<arg, urlText, dirs, recShareUrls, li, cookie, inflight,
                   shareInfo, playInfoUrl, initPlayInfo, playInfo,
                   nextClipStartTime, mediaUrls, downloadLocals, disk, clock,
                   failedAttempts, console, logFiles, lastError, ghosts>>

SpecScrape ==
    InitScrape
    /\ [][UpdateCookie \/ ImportCookies \/ MediaUrlsMatched
            \/ DeleteCookies]_vars

----------------------------------------------------------------------------
(* Properties *)

\* The records of failedAttempts, read by what they name.
IsLinkRecord(record, k) ==
    /\ Len(record) = 1
    /\ record[1].url.origin = recShareUrls[k].origin
    /\ record[1].url.pathname = recShareUrls[k].pathname

IsMediaRecord(record, k, url) ==
    /\ Len(record) = 3
    /\ record[1].url.origin = recShareUrls[k].origin
    /\ record[1].url.pathname = recShareUrls[k].pathname
    /\ record[3].url.origin = url.origin
    /\ record[3].url.pathname = url.pathname

LinkFaults(k) ==
    {n \in 1..Len(faults) : faults[n] = Fault(k, NoUrl)}

LinkRecords(k) ==
    {n \in 1..Len(failedAttempts) : IsLinkRecord(failedAttempts[n], k)}

MediaFaults(k, url) ==
    {n \in 1..Len(faults) : faults[n] = Fault(k, url)}

MediaRecords(k, url) ==
    {n \in 1..Len(failedAttempts) : IsMediaRecord(failedAttempts[n], k, url)}

MediaUrls == {VideoUrl.url, AudioUrl.url}

\* The share URLs taken up so far are the first ones of the set, in order,
\* each once; none is skipped, and all of them are once the logs are written.
AttemptedInOrder ==
    /\ attempted = [k \in 1..Len(attempted) |-> k]
    /\ Len(attempted) =
           IF pc \in {"startup", "aborted", "link", "done"} THEN li - 1
           ELSE li
    /\ pc = "done" => Len(attempted) = Len(recShareUrls)

\* C1: a failed Resolver step of a share URL (share-info, play page or
\* /play/info of any clip) appends exactly one record keyed by that share URL,
\* at most one per share URL, and the loop goes on: every later share URL of
\* the set is still taken up, whatever the earlier ones did.
C1_LinkFaultIsolation ==
    /\ \A k \in 1..Len(recShareUrls) :
           /\ Cardinality(LinkRecords(k)) = Cardinality(LinkFaults(k))
           /\ Cardinality(LinkFaults(k)) <= 1
    /\ AttemptedInOrder

\* The first share URL has failed in the Resolver and the second one has
\* been taken up all the same.
C1_Witness ==
    /\ pc = "done"
    /\ Len(recShareUrls) >= 2
    /\ LinkFaults(1) # {}
    /\ LinkRecords(1) # {}
    /\ Len(attempted) = Len(recShareUrls)

\* C2: a failed download (media response not ok, or the stream errors)
\* appends one record keyed by the share URL and the media URL, and leaves the
\* loops where they were: the media URLs of the clip not yet requested are
\* still queued, the clip and the share URL are the same, and every share URL
\* is taken up by the end of the run.
C2_MediaFaultIsolation ==
    /\ \A k \in 1..Len(recShareUrls) : \A url \in MediaUrls :
           Cardinality(MediaRecords(k, url)) = Cardinality(MediaFaults(k, url))
    /\ (pc = "media" /\ lastError # "") =>
           /\ owed = Range(mediaUrls)
           /\ clipsSeen = i
           /\ Last(faults).link = li
           /\ Last(attempted) = li
    /\ pc = "done" => Len(attempted) = Len(recShareUrls)

\* The video of a clip has failed and the audio of the same clip is being
\* streamed.
C2_Witness ==
    /\ pc = "streaming"
    /\ mediaUrl = AudioUrl.url
    /\ MediaFaults(li, VideoUrl.url) # {}
    /\ MediaRecords(li, VideoUrl.url) # {}

IsFinalPath(p) == p.dir = downloadDirectory /\ Last(p.name) # ".part"

\* C3: a file stands under a final name only once its download is complete:
\* in every state no write stream holds unflushed data for a file that
\* stands under a final name.
C3_RenameOnlyAfterCompletion ==
    \A p \in DOMAIN fs :
        IsFinalPath(p) =>
            \A w \in 1..Len(writers) :
                writers[w].ino = fs[p] => writers[w].buffered = 0

\* C4: when a media stream errors, then after the finally block the
\* temporary file of the download is no longer in the download directory,
\* and the files under final names are what they were.
C4_CleanupAfterStreamError ==
    [][StreamError =>
          /\ ~ExistsSync(fs', Path(downloadDirectory, temporaryFilename))
          /\ \A p \in DOMAIN fs' :
                 IsFinalPath(p) => ExistsSync(fs, p) /\ fs'[p] = fs[p]]_vars

FailedLogWritten ==
    \E f \in 1..Len(logFiles) : Last(logFiles[f].name) = "-failed.txt"

SummaryPrinted ==
    \E n \in 1..Len(console) : console[n] = Line(0, "Found failed attempts.")

\* C5: at the end of the run the failed log is written, and the summary of
\* the failed attempts printed, if and only if failedAttempts holds at least
\* one record.
C5_FailureReportIffFailures ==
    pc = "done" =>
        /\ FailedLogWritten <=> Len(failedAttempts) > 0
        /\ SummaryPrinted <=> Len(failedAttempts) > 0

HasNoQuery(text) ==
    \A m \in 1..Len(text) : text[m].url.search = <<>>

\* C6: every share URL and every media URL of a record of failedAttempts,
\* and of the failed log written from them, has an empty query string: the
\* report is made of the origins and paths alone, whatever the pwd and the
\* other parameters were.
C6_PasswordRedaction ==
    /\ \A n \in 1..Len(failedAttempts) : HasNoQuery(failedAttempts[n])
    /\ \A f \in 1..Len(logFiles) :
           Last(logFiles[f].name) = "-failed.txt" =>
               HasNoQuery(logFiles[f].content)

\* The failed log names the first share URL, which came with ?pwd=, and a
\* media URL, which came with ?token=.
C6_Witness ==
    /\ pc = "done"
    /\ recShareUrls[1].search # <<>>
    /\ LinkRecords(1) # {}
    /\ \E k \in 1..Len(recShareUrls) : MediaRecords(k, VideoUrl.url) # {}
    /\ VideoUrl.url.search # <<>>
    /\ FailedLogWritten

\* C7: a /play/info result that yields no media URL appends a record to
\* failedAttempts, and the share URL and the clip go on.
C7_ZeroMediaIsFailure ==
    [][(pc = "play-info" /\ pc' = "media" /\ mediaUrls' = <<>>) =>
          /\ Len(failedAttempts') = Len(failedAttempts) + 1
          /\ li' = li]_vars

IsRecognized(c) == c.name \in {<<"_zm_ssid">>, <<"cred">>}

\* The cookie header made of the recognized cookies of a Set-Cookie list,
\* each with the value set for it.
RecognizedHeader(cookies) ==
    LET kept == SelectSeq(cookies, IsRecognized)
    IN Join([k \in 1..Len(kept) |->
                 kept[k].name \o <<"=">> \o kept[k].value],
            <<";", " ">>)

\* C8: every request after /share-info carries a cookie header that names
\* only the cookies _zm_ssid and cred the /share-info response has set, each
\* with the value set for that very name.
C8_OnlyRecognizedCookies ==
    \A r \in 1..Len(inflight) :
        inflight[r].kind # "share-info" =>
            inflight[r].cookie = RecognizedHeader(linkSetCookie)

\* The values the server hands out for the k-th share URL.
ValuesOf(k) == {SessionIds[k], Credentials[k], Trackers[k]}

\* C9: the /share-info request of a share URL carries an empty cookie
\* header, and no request of a share URL carries a value the server has
\* handed out for another share URL.
C9_NoCrossLinkCookies ==
    \A r \in 1..Len(inflight) :
        /\ inflight[r].kind = "share-info" => inflight[r].cookie = <<>>
        /\ \A k \in 1..Len(recShareUrls) :
               k # inflight[r].link =>
                   Range(inflight[r].cookie) \cap ValuesOf(k) = {}

\* The first share URL has saved a file under its session cookies, and the
\* second one, whose /share-info response set no cookie, requests its play
\* page.
C9_Witness ==
    /\ \E n \in 1..Len(console) : console[n] = Line(1, "Saved")
    /\ Len(inflight) = 1
    /\ inflight[1].kind = "rec-play"
    /\ inflight[1].link = 2
    /\ linkSetCookie = <<>>
    /\ inflight[1].cookie = <<>>

\* C10: the /play/info request of a clip i > 1 carries as startTime the
\* nextClipStartTime of the response before it; when it is issued, and when
\* the share URL is completed, every media URL the responses have listed has
\* been requested, and a completed share URL has had totalClips responses.
C10_PaginationCursor ==
    /\ [](\A r \in 1..Len(inflight) :
              (inflight[r].kind = "play-info" /\ inflight[r].clip > 1) =>
                  /\ SearchParamsGet(inflight[r].url.search, "startTime")
                         = NumberToString(serverCursor)
                  /\ clipsSeen = inflight[r].clip - 1
                  /\ owed = {})
    /\ [][Completed =>
              owed = {} /\ clipsSeen = initPlayInfo.totalClips]_vars

\* The request of the third clip carries the cursor 10800 of the second
\* response, after the server has listed media URLs.
C10_Witness ==
    /\ Len(inflight) = 1
    /\ inflight[1].kind = "play-info"
    /\ inflight[1].clip = 3
    /\ serverCursor = 10800
    /\ SearchParamsGet(inflight[1].url.search, "startTime") = "10800"
    /\ listed > 0

FirstOccurrence(u) ==
    CHOOSE k \in 1..Len(urlText) :
        /\ urlText[k] = UrlText(u)
        /\ \A m \in 1..(k - 1) : urlText[m] # UrlText(u)

\* recShareUrls holds each distinct line of urlText that matches the share
\* URL pattern exactly once and nothing else, in the order of the first
\* occurrences of the lines.
IsSetOfText ==
    /\ \A k \in 1..Len(urlText) :
           MatchesShareUrl(urlText[k]) =>
               Cardinality({n \in 1..Len(recShareUrls) :
                                recShareUrls[n] = urlText[k].url}) = 1
    /\ \A n \in 1..Len(recShareUrls) :
           \E k \in 1..Len(urlText) :
               /\ MatchesShareUrl(urlText[k])
               /\ urlText[k] = UrlText(recShareUrls[n])
    /\ \A a, b \in 1..Len(recShareUrls) :
           a < b => FirstOccurrence(recShareUrls[a])
                        < FirstOccurrence(recShareUrls[b])

\* C13: once urls.txt is read, the Set holds each distinct line that matches
\* the share URL pattern exactly once, in the order of the first
\* occurrences, and it does not change afterwards; the loop takes the share
\* URLs up in that order, each once (its /share-info request is the one of
\* the share URL at that place of the Set), and when the logs are written it
\* has taken up all of them.
C13_InputSetSemantics ==
    /\ [][(pc = "startup" /\ pc' = "link") => IsSetOfText']_vars
    /\ [][pc # "startup" => UNCHANGED <<urlText, recShareUrls>>]_vars
    /\ [](/\ AttemptedInOrder
          /\ \A r \in 1..Len(inflight) :
                 inflight[r].kind = "share-info" =>
                     inflight[r].url
                         = ShareInfoUrl(recShareUrls[Last(attempted)]))

\* A run over a urls.txt that holds each of two share URLs three times,
\* among lines that do not match, has taken up both and written its logs.
C13_Witness ==
    /\ pc = "done"
    /\ urlText = NoisyText(2)
    /\ Len(urlText) > Len(recShareUrls)
    /\ recShareUrls = <<ShareUrl(1), ShareUrl(2)>>
    /\ attempted = <<1, 2>>

\* urls.txt is missing, or holds the path of the sample URLs, or holds no
\* line that matches the share URL pattern.
InvalidInput ==
    \/ Path("cwd", urlTextFilename) \notin DOMAIN fs
    \/ \E k \in 1..Len(urlText) :
           \E n \in 1..Len(urlText[k].url.pathname) :
               urlText[k].url.pathname[n] = samplePathname
    \/ \A k \in 1..Len(urlText) : ~MatchesShareUrl(urlText[k])

\* No request was issued, nothing was written to the download directory
\* (which was not made) and no log was written.
NothingDone ==
    /\ inflight = <<>>
    /\ attempted = <<>>
    /\ sent = <<>>
    /\ writers = <<>>
    /\ DOMAIN fs \subseteq {Path("cwd", urlTextFilename)}
    /\ dirs = {}
    /\ logFiles = <<>>
    /\ console = <<>>

\* C14: when urls.txt is missing, holds the sample path or holds no line
\* that matches, the startup check throws, and the process ends there with
\* the error: no request was or will be issued and no media file written.
\* Until the startup check has passed nothing is requested or written.
C14_StartupValidationIsFatal ==
    /\ [][(pc = "startup" /\ InvalidInput) =>
              (pc' = "aborted" /\ lastError' # "" /\ NothingDone')]_vars
    /\ [][pc = "aborted" => FALSE]_vars
    /\ [](pc \in {"startup", "aborted"} => NothingDone)

\* The run has ended in the startup check over a urls.txt of two lines, one
\* with a path that is not /rec/share/ and a share URL after a blank.
C14_Witness ==
    /\ pc = "aborted"
    /\ urlText = <<EditLine, IndentedLine>>
    /\ lastError = "No valid URL(s) are found."
    /\ recShareUrls = <<>>
    /\ inflight = <<>>

\* C15: once the startup check has passed the process is never aborted:
\* whatever the responses and the streams do, no exception escapes the two
\* catch blocks, and the script is at one of its awaits, between two
\* statements of the loops, or at its end with the logs written.
C15_PartialSuccessIsSuccess ==
    /\ pc # "crashed"
    /\ pc = "done" => Len(logFiles) >= 2

\* The Resolver has yielded: the first /play/info response was taken as the
\* PlayInfo of clip 1, with the clips it counts, and nothing was recorded.
ResolverYields ==
    /\ pc' = "media"
    /\ initPlayInfo'.totalClips >= 1
    /\ playInfo' = initPlayInfo'
    /\ i' = 1
    /\ faults' = faults
    /\ failedAttempts' = failedAttempts

\* The Resolver has failed: one failure of the share URL is recorded and
\* logged, and the share URL is left.
ResolverFails ==
    /\ pc' = "link"
    /\ li' = li + 1
    /\ faults' = Append(faults, Fault(li, NoUrl))
    /\ Len(failedAttempts') = Len(failedAttempts) + 1
    /\ IsLinkRecord(Last(failedAttempts'), li)
    /\ console' = Append(console, Line(li, "red"))
    /\ lastError' # ""

\* C16: every response to a Resolver request of a share URL either lets the
\* Resolver go on to its next request, or ends it in exactly one of two
\* ways: it yields the PlayInfo of clip 1, or one failure is recorded for
\* the share URL; the response to the first /play/info request always ends
\* it in one of the two ways.
C16_ResolveShareOutcomes ==
    [][/\ (pc \in {"share-info", "rec-play"} /\ pc' # pc) =>
              \/ /\ pc' = IF pc = "share-info" THEN "rec-play"
                          ELSE "play-info"
                 /\ Len(inflight') = 1
                 /\ faults' = faults
              \/ ResolverFails
       /\ (pc = "play-info" /\ pc' # pc /\ clipsSeen = 0) =>
              /\ ResolverYields \/ ResolverFails
              /\ ~(ResolverYields /\ ResolverFails)]_vars

\* The value is a string that is a media URL of the vendor: on the media
\* host, the file name ending in .mp4 or .m4a.
IsVendorMedia(v) ==
    /\ v.type = "string"
    /\ v.url.origin = "https://ssrweb.zoom.us"
    /\ Len(v.url.pathname) > 0
    /\ Last(Last(v.url.pathname)) \in {".mp4", ".m4a"}

\* C17: what the extraction returns for a /play/info result holds no URL
\* twice, holds only field values that are strings and media URLs of the
\* vendor (media host, .mp4 or .m4a), and holds each of these; a value of
\* another type, or a string that is no such URL, is not in it.
C17_ExtractMediaUrls ==
    pc = "returned" =>
        /\ \A a, b \in 1..Len(ret) : a # b => ret[a] # ret[b]
        /\ \A n \in 1..Len(ret) :
               \E k \in 1..Len(arg.fields) :
                   /\ IsVendorMedia(arg.fields[k])
                   /\ arg.fields[k].url = ret[n]
        /\ \A k \in 1..Len(arg.fields) :
               IsVendorMedia(arg.fields[k]) =>
                   \E n \in 1..Len(ret) : ret[n] = arg.fields[k].url

\* C18: convertToSafeName applied to what it has returned for a name
\* returns it unchanged.
C18_SafeNameIdempotent ==
    Len(ret) = 2 => ret[2] = ret[1]

\* The function was called twice on ":/: ", a name in which it replaces
\* ": ", then the reserved characters, and then collapses two hyphens.
C18_Witness ==
    /\ pc = "returned"
    /\ arg = <<":", "/", ":", " ">>
    /\ Len(ret) = 2
    /\ ret[1] = <<"-", " ", "-", " ">>
    /\ ret[1] # arg

\* The records a failure report holds: a record starts with a URL at the
\* start of the text or after an empty line.
RecordsOf(content) ==
    {n \in 1..Len(content) :
         /\ content[n].url # NoUrl
         /\ n = 1 \/ content[n - 1] = Text("\n\n")}

FailedLogs ==
    SelectSeq(logFiles, LAMBDA f : Last(f.name) = "-failed.txt")

RedLines ==
    SelectSeq(console, LAMBDA l : l.line = "red")

\* C19: every failure caught so far has its record in failedAttempts and
\* its red line on the console, in the order the failures were caught, and
\* nothing else has; and at the end of the run the failed log holds as many
\* records as failures were caught.
C19_NoFailureDropped ==
    /\ Len(failedAttempts) = Len(faults)
    /\ \A n \in 1..Len(faults) :
           IF faults[n].url = NoUrl
           THEN IsLinkRecord(failedAttempts[n], faults[n].link)
           ELSE IsMediaRecord(failedAttempts[n], faults[n].link,
                              faults[n].url)
    /\ RedLines = [n \in 1..Len(faults) |-> Line(faults[n].link, "red")]
    /\ pc = "done" =>
           /\ Len(FailedLogs) = 1
           /\ Cardinality(RecordsOf(FailedLogs[1].content)) = Len(faults)

\* The run has ended after a share URL failed and a download of another
\* share URL failed, and the failed log holds the two records.
C19_Witness ==
    /\ pc = "done"
    /\ Len(faults) = 2
    /\ \E n \in 1..2 : faults[n].url = NoUrl
    /\ \E n \in 1..2 : faults[n].url # NoUrl
    /\ Len(FailedLogs) = 1
    /\ Cardinality(RecordsOf(FailedLogs[1].content)) = 2

\* The files under final names in the download directory.
FinalFiles(f) == {p \in DOMAIN f : IsFinalPath(p)}

\* The downloads that have completed: one "Saved" line each.
SavedLines(lines) == SelectSeq(lines, LAMBDA l : l.line = "Saved")

\* C20: at the end of the run there are as many files under final names in
\* the download directory as downloads have completed, and a download that
\* completes takes a final name no file has yet and leaves the files saved
\* before it as they are.
C20_OneFilePerMediaItem ==
    [][/\ pc' = "done" =>
              Cardinality(FinalFiles(fs')) = Len(SavedLines(console'))
       /\ Len(SavedLines(console')) > Len(SavedLines(console)) =>
              /\ ~ExistsSync(fs, Path(downloadDirectory, filename))
              /\ \A p \in FinalFiles(fs) :
                     ExistsSync(fs', p) /\ fs'[p] = fs[p]]_vars

\* The messages of the three checks of shareInfo.
ShareInfoProtocolErrors ==
    { "Recording does not exist. Check if the URL requires a password.",
      "Valid token is not found. Check if the URL requires additional actions.",
      "Record play URL is not found." }

\* C21: a successful /share-info response whose result is null, or has
\* hasValidToken false, or has no redirectUrl, never takes the share URL
\* past /share-info; the step that meets it appends one record keyed by the
\* share URL and one red line, was preceded by no other request of the share
\* URL and issues none, creates no file and no write stream, and moves on
\* to the next share URL; and the share URL is not requested again.
C21_ShareInfoProtocolFailure ==
    /\ [](pc \in {"rec-play", "play-info", "media", "media-fetch",
                  "streaming"} =>
              /\ shareInfo.kind = "result"
              /\ shareInfo.hasValidToken # "false"
              /\ shareInfo.redirectUrl # <<>>)
    /\ [](\A n \in 1..Len(faults) : \A r \in 1..Len(inflight) :
              faults[n].url = NoUrl => inflight[r].link > faults[n].link)
    /\ [][pc = "share-info" /\ lastError' \in ShareInfoProtocolErrors =>
              /\ sent = <<<<"share-info", 0>>>>
              /\ inflight' = <<>>
              /\ Len(failedAttempts') = Len(failedAttempts) + 1
              /\ IsLinkRecord(Last(failedAttempts'), li)
              /\ console' = Append(console, Line(li, "red"))
              /\ UNCHANGED <<fs, inodes, writers, logFiles>>
              /\ li' = li + 1
              /\ pc' = "link"]_vars

\* The first share URL has just failed for a /share-info result without
\* redirectUrl, and the second one is next.
C21_Witness ==
    /\ li = 2
    /\ pc = "link"
    /\ lastError = "Record play URL is not found."
    /\ Len(failedAttempts) = 1
    /\ IsLinkRecord(failedAttempts[1], 1)
    /\ console = <<Line(1, "red")>>
    /\ FinalFiles(fs) = {}
    /\ writers = <<>>

\* A media file of the k-th share URL has been requested: the request is
\* out or being streamed, or it has ended in a saved file or in a record.
DownloadStarted(k) ==
    \/ k = li /\ pc \in {"media-fetch", "streaming", "crashed"}
    \/ \E n \in 1..Len(console) : console[n] = Line(k, "Saved")
    \/ \E n \in 1..Len(faults) : faults[n].link = k /\ faults[n].url # NoUrl

LinkCompleted(k) ==
    \E n \in 1..Len(console) : console[n] = Line(k, "Completed.")

\* The state of the k-th share URL: not yet taken up, in its loop body
\* before and after its first media request, and left by the catch block
\* or past log('└', 'Completed.').  A run the uncaught exception has ended
\* leaves its share URL where it was.
LinkState(k) ==
    IF k > Len(attempted) THEN "PENDING"
    ELSE IF LinkFaults(k) # {} /\ LinkCompleted(k) THEN "FAILED+COMPLETED"
    ELSE IF LinkFaults(k) # {} THEN "FAILED"
    ELSE IF LinkCompleted(k) THEN "COMPLETED"
    ELSE IF DownloadStarted(k) THEN "DOWNLOADING"
    ELSE "RESOLVING"

LinkTransitions ==
    { <<"PENDING", "RESOLVING">>, <<"RESOLVING", "FAILED">>,
      <<"RESOLVING", "DOWNLOADING">>, <<"RESOLVING", "COMPLETED">>,
      <<"DOWNLOADING", "COMPLETED">> }

\* C22: a share URL changes state only along PENDING -> RESOLVING -> FAILED
\* or PENDING -> RESOLVING -> DOWNLOADING -> COMPLETED (with no download,
\* RESOLVING -> COMPLETED), FAILED is not entered once a media file of the
\* share URL has been requested, and at the end of the run every share URL
\* is FAILED or COMPLETED.
C22_LinkStateMachine ==
    [][/\ \A k \in 1..Len(recShareUrls) :
              LinkState(k)' # LinkState(k) =>
                  /\ <<LinkState(k), LinkState(k)'>> \in LinkTransitions
                  /\ LinkState(k)' = "FAILED" => ~DownloadStarted(k)
       /\ pc' = "done" =>
              \A k \in 1..Len(recShareUrls') :
                  LinkState(k)' \in {"FAILED", "COMPLETED"}]_vars

\* The response has set a cookie named _zm_ssid or cred.
SetsRecognizedCookie(cookies) ==
    \E n \in 1..Len(cookies) : cookies[n].name \in {<<"_zm_ssid">>, <<"cred">>}

\* C23: a share URL gets past /share-info only when the response has set
\* one of the cookies _zm_ssid and cred; a successful response without
\* them makes the share URL fail there, with its record, and the next share
\* URL is taken up.
C23_MissingCookieIsFailure ==
    [][pc = "share-info" /\ pc' # pc =>
           IF pc' = "rec-play"
           THEN SetsRecognizedCookie(linkSetCookie')
           ELSE /\ pc' = "link"
                /\ li' = li + 1
                /\ Len(failedAttempts') = Len(failedAttempts) + 1
                /\ IsLinkRecord(Last(failedAttempts'), li)]_vars

WithoutParam(search, key) == SelectSeq(search, LAMBDA kv : kv[1] # key)

ParamCount(search, key) ==
    Cardinality({n \in 1..Len(search) : search[n][1] = key})

\* The four parameters every /play/info request carries.
FixedParams ==
    << <<"canPlayFromShare", "true">>, <<"from", "share_recording_detail">>,
       <<"continueMode", "true">>, <<"componentName", "rec-play">> >>

\* C25: every /play/info request of a share URL goes to the origin of the
\* share URL and the path of the fileId of its play page, with the four
\* fixed parameters, each once, with pwd exactly when shareInfo holds a
\* password (and then that password), and with startTime, once, exactly
\* for a clip after the first; and the step to the next clip changes
\* nothing of playInfoUrl but startTime.
C25_PlayInfoRequestFrame ==
    /\ [](\A r \in 1..Len(inflight) :
              inflight[r].kind = "play-info" =>
                  LET url == inflight[r].url
                  IN /\ url = playInfoUrl
                     /\ url.origin = recShareUrls[li].origin
                     /\ url.pathname = <<"nws", "recording", "1.0", "play",
                                         "info", FileIds[li]>>
                     /\ WithoutParam(WithoutParam(url.search, "pwd"),
                                     "startTime") = FixedParams
                     /\ ParamCount(url.search, "pwd") =
                            IF shareInfo.pwd # "" THEN 1 ELSE 0
                     /\ SearchParamsGet(url.search, "pwd") = shareInfo.pwd
                     /\ ParamCount(url.search, "startTime") =
                            IF inflight[r].clip > 1 THEN 1 ELSE 0)
    /\ [][(playInfoUrl # NoUrl /\ playInfoUrl' # NoUrl) =>
              /\ playInfoUrl'.origin = playInfoUrl.origin
              /\ playInfoUrl'.pathname = playInfoUrl.pathname
              /\ WithoutParam(playInfoUrl'.search, "startTime") =
                     WithoutParam(playInfoUrl.search, "startTime")]_vars

\* /play/info of the third clip of a share URL with a password is in
\* flight: the password, the four parameters and the cursor of the second
\* response.
C25_Witness ==
    /\ Len(inflight) = 1
    /\ inflight[1].kind = "play-info"
    /\ inflight[1].clip = 3
    /\ shareInfo.pwd = "pw-1"
    /\ inflight[1].url.search =
           <<<<"pwd", "pw-1">>>> \o FixedParams \o <<<<"startTime", "10800">>>>

\* The /play/info requests of the share URL of the current iteration.
PlayInfoRequests == SelectSeq(sent, LAMBDA q : q[1] = "play-info")

\* C26: the clip loop of a share URL is bounded by totalClips of its first
\* /play/info response: no /play/info request is made for a clip beyond it,
\* and a share URL that is completed has made one /play/info request for
\* clip 1 and one for each of the clips 2..totalClips, no other, and has
\* taken up totalClips results, whatever the later responses have held.
C26_ClipLoopBound ==
    /\ [](/\ \A n \in 1..Len(PlayInfoRequests) :
                 /\ PlayInfoRequests[n][2] = n
                 /\ n > 1 => n <= initPlayInfo.totalClips
          /\ clipsSeen <= initPlayInfo.totalClips)
    /\ [][Completed =>
              /\ clipsSeen = initPlayInfo.totalClips
              /\ Len(PlayInfoRequests) =
                     IF initPlayInfo.totalClips > 1
                     THEN initPlayInfo.totalClips ELSE 1]_vars

\* The clip loop of a recording of MaxClips clips is over: one /play/info
\* request for each clip, and the share URL is about to be completed.
C26_Witness ==
    /\ pc = "media"
    /\ mediaUrls = <<>>
    /\ initPlayInfo.totalClips = MaxClips
    /\ i = MaxClips
    /\ clipsSeen = MaxClips
    /\ Len(PlayInfoRequests) = MaxClips
    /\ LinkFaults(li) = {}

\* C27: a download that is saved is saved under a name that starts with
\* the topic of the first /play/info result of its share URL, whatever the
\* clip.
C27_TopicOfFirstPlayInfo ==
    [][Len(SavedLines(console')) > Len(SavedLines(console)) =>
           /\ filename[1] = initPlayInfo.meet
           /\ \A p \in FinalFiles(fs') \ FinalFiles(fs) :
                  p.name[1] = initPlayInfo.meet]_vars

\* C28: a write stream is created only on a temporary path at which no
\* file stands and on which no other write stream is open or about to
\* open, and every open of a write stream creates its file.
C28_TemporaryNameExclusive ==
    [][/\ Len(writers') > Len(writers) =>
              /\ ~ExistsSync(fs, Last(writers').path)
              /\ \A w \in 1..Len(writers) :
                     writers[w].path # Last(writers').path
       /\ OpenFile => inodes' = inodes + 1]_vars

\* C29: a media response that is not successful, or has no body, appends
\* one record keyed by the share URL and the media URL, leaves the files
\* under final names as they were, and has created no file at the temporary
\* path of the download and no write stream that is open, or about to
\* open, on it.
C29_MediaTransportFailure ==
    [][(pc = "media-fetch" /\ pc' = "media") =>
           /\ lastError' \in {"Requesting the media file has failed.",
                              "TypeError"}
           /\ Len(failedAttempts') = Len(failedAttempts) + 1
           /\ IsMediaRecord(Last(failedAttempts'), li, mediaUrl)
           /\ FinalFiles(fs') = FinalFiles(fs)
           /\ \A p \in FinalFiles(fs) : fs'[p] = fs[p]
           /\ ExistsSync(fs', Path(downloadDirectory, temporaryFilename))
                  => ExistsSync(fs, Path(downloadDirectory, temporaryFilename))
           /\ writers' = writers]_vars

\* C30: what convertToSafeName returns holds none of the characters
\* < > : " / \ | ? * and no two hyphens in a row.
C30_SafeNameCharacters ==
    \A n \in 1..Len(ret) :
        /\ \A k \in 1..Len(ret[n]) :
               ret[n][k] \notin {"<", ">", ":", "\"", "/", "\\", "|", "?", "*"}
        /\ \A k \in 1..(Len(ret[n]) - 1) :
               ~(ret[n][k] = "-" /\ ret[n][k + 1] = "-")

\* The function has returned "a-" for "a?-\": a reserved character, a
\* hyphen and another reserved character in a row have become one hyphen.
C30_Witness ==
    /\ arg = <<"a", "?", "-", "\\">>
    /\ Len(ret) >= 1
    /\ ret[1] = <<"a", "-">>

\* The cookie names of a cookie request header, in order: the tokens that
\* stand before an "=".
CookieNames(header) ==
    SelectSeq([k \in 1..Len(header) |->
                   IF k < Len(header) /\ header[k + 1] = "=" THEN header[k]
                   ELSE ""],
              LAMBDA name : name # "")

\* C31: the cookie header of every request names each cookie at most once,
\* and a cookie the /share-info response has set more than once is sent
\* with the value set last.
C31_UniqueCookieNames ==
    \A r \in 1..Len(inflight) :
        LET names == CookieNames(inflight[r].cookie)
        IN /\ \A a, b \in 1..Len(names) : a # b => names[a] # names[b]
           /\ \A n \in 1..Len(linkSetCookie) :
                  (/\ inflight[r].kind # "share-info"
                   /\ linkSetCookie[n].name \in {<<"_zm_ssid">>, <<"cred">>}
                   /\ \A m \in (n + 1)..Len(linkSetCookie) :
                          linkSetCookie[m].name # linkSetCookie[n].name)
                  => \E k \in 1..(Len(inflight[r].cookie) - 2) :
                         /\ <<inflight[r].cookie[k]>> = linkSetCookie[n].name
                         /\ inflight[r].cookie[k + 1] = "="
                         /\ <<inflight[r].cookie[k + 2]>> =
                                linkSetCookie[n].value

\* C32: within one share URL the cookie header is written only at the start
\* of the iteration and by the /share-info step: the play page response,
\* every /play/info response and every media response leave it unchanged,
\* and every request after /share-info (play page, /play/info, media) carries
\* that cookie header together with the fixed Referer and User-Agent.
C32_CookieFrame ==
    [][/\ cookie' # cookie => pc \in {"link", "share-info"}
       /\ \A r \in 1..Len(inflight') :
              (inflight' # inflight /\ inflight'[r].kind # "share-info") =>
                  /\ inflight'[r].cookie = cookie'
                  /\ pc # "share-info" => inflight'[r].cookie = cookie
                  /\ inflight'[r].referer = Referer
                  /\ inflight'[r].userAgent = UserAgent]_vars

\* A media file is requested after a play page and a /play/info request of
\* the same share URL, with the session cookies /share-info has set.
C32_Witness ==
    /\ Len(inflight) = 1
    /\ inflight[1].kind = "media"
    /\ linkSetCookie = SessionCookies(li)
    /\ inflight[1].cookie = cookie
    /\ cookie = <<"_zm_ssid", "=", SessionIds[li], ";", " ",
                  "cred", "=", Credentials[li]>>
    /\ inflight[1].referer = "https://zoom.us/"

Fairness ==
    /\ WF_vars(Startup) /\ WF_vars(StartLink) /\ WF_vars(NextClip)
    /\ WF_vars(Completed) /\ WF_vars(FetchMedia) /\ WF_vars(WriteLogs)
    /\ WF_vars(ShareInfoResponse) /\ WF_vars(RecPlayResponse)
    /\ WF_vars(PlayInfoResponse) /\ WF_vars(MediaResponse)
    /\ WF_vars(StreamData) /\ WF_vars(StreamEnd \/ StreamError)
    /\ WF_vars(OpenFile) /\ WF_vars(Flush)

SpecLive == Init /\ [][Next]_vars /\ Fairness

\* The run has finished: the logs are written and every share URL of the
\* set is COMPLETED or FAILED.
Finished ==
    /\ pc = "done"
    /\ Len(logFiles) >= 2
    /\ \A k \in 1..Len(recShareUrls) :
           LinkState(k) \in {"COMPLETED", "FAILED"}

\* C34: when every request is answered or fails and every stream emits
\* 'end' or 'error', a run that has entered the loop over the share URLs
\* eventually finishes, with every share URL COMPLETED or FAILED and the
\* logs written.
C34_Termination == (pc = "link") ~> Finished

\* The run ends in one way or the other: finished, or by the exception the
\* 'end' listener throws.
EndsEitherWay == (pc = "link") ~> (Finished \/ pc = "crashed")

\* The value the response has set last for the cookie of that name, <<>>
\* when it has set none.
ValueSetFor(cookies, name) ==
    LET set == SelectSeq(cookies, LAMBDA c : c.name = <<name>>)
    IN IF set = <<>> THEN <<>> ELSE Characters(Last(set).value)

\* C35: after the scan of the /share-info response the keys of cookieMap
\* are among _zm_ssid and cred, and each key maps to the value the response
\* has set for the cookie of that name.
C35_CookieMapAfterScan ==
    pc \in {"scanned", "returned"} =>
        \A n \in 1..Len(ret) :
            \E name \in {"_zm_ssid", "cred"} :
                /\ ret[n][1] = Spell(name)
                /\ ret[n][2] = ValueSetFor(arg, name)

\* The keys of a map that match the TS pattern.
TsKeys(map) == {map[n][1] : n \in {m \in 1..Len(map) : zoomCookieTs(map[m][1])}}

\* The entries of a map whose keys do not match the TS pattern, in order.
OtherEntries(map) == SelectSeq(map, LAMBDA entry : ~zoomCookieTs(entry[1]))

\* The names of the cookies of a list that match the TS pattern, in order.
TsNamesOf(cookies) ==
    SelectSeq([n \in 1..Len(cookies) |-> cookies[n].name], zoomCookieTs)

\* C36: cookieMap holds at most one cookie whose name matches the TS
\* pattern; an updateCookie call or an import that sets a TS cookie leaves
\* the last TS cookie it has set as the only one, one that sets none leaves
\* the TS cookie as it was, and each cookie of another name that the call
\* does not set is left with its value, in its place among the others.
C36_SingleTsCookie ==
    /\ [](Cardinality(TsKeys(ret)) <= 1)
    /\ [][(UpdateCookie \/ ImportCookies) =>
              /\ TsKeys(ret') =
                     IF TsNamesOf(arg') = <<>> THEN TsKeys(ret)
                     ELSE {Last(TsNamesOf(arg'))}
              /\ TsNamesOf(arg') = <<>> =>
                     \A n \in 1..Len(ret) :
                         zoomCookieTs(ret[n][1]) => ret'[n] = ret[n]
              /\ \A n \in 1..Len(OtherEntries(ret)) :
                     /\ OtherEntries(ret')[n][1] = OtherEntries(ret)[n][1]
                     /\ (\A c \in 1..Len(arg') :
                             arg'[c].name # OtherEntries(ret)[n][1]) =>
                            OtherEntries(ret')[n] = OtherEntries(ret)[n]]_vars

\* The map held one TS cookie between two cookies of other names; the
\* import has set the two TS cookies, and the one set last has taken the
\* place of the three, with the other two cookies as they were.
C36_Witness ==
    /\ pc = "clip-media"
    /\ Len(arg) = 2
    /\ arg[1].name = <<"TS01a2b3c4">>
    /\ arg[2].name = <<"TS09f8e7d6">>
    /\ ret = << <<<<"TS01a2b3c">>, <<"v1">>>>,
                <<<<"cred">>, <<"v1">>>>,
                <<<<"TS09f8e7d6">>, <<"v1", "%20", "v2">>>> >>

====
